---- MODULE Spec2Model ----
(***************************************************************************)
(* BeeClock logical time kernel: builder, validation, tick(), partition    *)
(* cascade and the pulse predicate algebra.                                *)
(*                                                                         *)
(* The kernel's u64 counters are modelled as WordBits-bit unsigned words   *)
(* (all arithmetic on tick and epoch is taken modulo 2^WordBits), so that  *)
(* the wrap of tick and the wrap of epoch are both within reach.           *)
(* Partition values and moduli are kept exact: value + 1 <= modulus holds  *)
(* before every increment, so that addition never wraps.                   *)
(*                                                                         *)
(* Spec drives a builder through every configuration of the menus, calls   *)
(* build() and ticks the clock through a wrap of epoch.  SpecCascade       *)
(* starts from freshly built clocks of the documentation and ticks each    *)
(* through one full cycle of its partitions.  SpecLifecycle adds           *)
(* snapshot() calls to a small builder menu; SpecSubscribers attaches      *)
(* unbounded and bounded subscribers to a running clock and drains them;   *)
(* SpecRaw polls a clock through snapshot_raw and tick_raw, from a fresh   *)
(* clock and from one about to wrap epoch.                                 *)
(* SpecBridge registers pulses from the host's condition literals;         *)
(* SpecNoon ticks the sec/min/hour clock from midnight to noon.            *)
(*                                                                         *)
(* SpecEngine is the page's fixed-timestep frame loop (Engine): start(),   *)
(* stop() and the frame callback, with times in whole milliseconds.        *)
(* SpecTimed is the same loop with the history of its run; SpecService is  *)
(* ClockService, which advances the clock from the engine's tick signal.   *)
(* SpecAnyName builds clocks whose pulses take any name.  SpecLoader,      *)
(* SpecConway and SpecApp are the AnimatedLoader, the Conway skin and an   *)
(* app made by createApp, each with its callers.                           *)
(***************************************************************************)
EXTENDS Integers, Sequences, FiniteSets, TLC

VARIABLES
    builder,      \* ClockBuilder: partitions, pulses, order (Unbuilt state)
    phase,        \* "Unbuilt" | "Running" | "Failed" | "Aborted"
    build_result, \* result of build(): NotBuilt, Ok or a ClockError
    clock,        \* Clock: tick, epoch, partitions, partition_order, pulses
    outcome,      \* the TickOutcome returned by the latest tick()
    steps,        \* number of tick() and tick_raw() calls made on this clock
    snap,         \* <<s>>: the latest snapshot() returned s; <<>>: no call yet
    subscribers,  \* the subscriber endpoints, in the order they were attached
    snapshot_out, \* the caller's buffer that snapshot_raw and tick_raw fill
    pulse_bits_out, \* the caller's pulse bitset buffer that tick_raw fills
    registration, \* the latest pulse_condition(name, literal) call and its result
    engine,       \* the page's Engine: signals and private loop state
    raf,          \* the browser's animation-frame requests
    call,         \* the latest start() or stop() call on the engine
    run,          \* history of the engine's current run: its start time, frames
    loader,       \* an AnimatedLoader: its config, its state, onComplete calls
    conway,       \* the Conway skin: its state and the generations computed
    app           \* an app made by createApp: its scene, the scenes' callbacks

\* The variables of the host's side: observers and raw buffers.
host == <<snap, subscribers, snapshot_out, pulse_bits_out>>

\* The variables of the page that renders the clock: the frame loop.
widgets == <<loader, conway, app>>

page == <<engine, raf, call, run, widgets>>

\* The variables of the kernel and of its host.
kernel ==
    <<builder, phase, build_result, clock, outcome, steps, host, registration>>

vars ==
    <<builder, phase, build_result, clock, outcome, steps, host, registration,
      page>>

----------------------------------------------------------------------------
(* Bounds *)

WordBits == 2
MaxPartitions == 2
MaxPulses == 2

U64Mod == 2 ^ WordBits
U64Max == U64Mod - 1

\* Enough tick() calls to wrap tick U64Mod times, i.e. to wrap epoch once.
MaxSteps == U64Mod * U64Mod + 1

----------------------------------------------------------------------------
(* PulseCondition: the closed predicate grammar *)

Every(period) == [type |-> "Every", period |-> period]
PartitionEquals(name, value) ==
    [type |-> "PartitionEquals", name |-> name, value |-> value]
PartitionModulo(name, modulus, remainder) ==
    [type |-> "PartitionModulo", name |-> name, modulus |-> modulus,
     remainder |-> remainder]
TickRange(start, end) == [type |-> "TickRange", start |-> start, end |-> end]
Not(c) == [type |-> "Not", inner |-> c]
And(cs) == [type |-> "And", children |-> cs]
Or(cs) == [type |-> "Or", children |-> cs]

----------------------------------------------------------------------------
(* ClockSnapshot::partition(name): first partition with that name, if any *)

NoPartition == [name |-> "", value |-> 0, modulus |-> 0, found |-> FALSE]

RECURSIVE FindPartition(_, _, _)
FindPartition(parts, name, i) ==
    IF i > Len(parts) THEN NoPartition
    ELSE IF parts[i].name = name
         THEN [name |-> parts[i].name, value |-> parts[i].value,
               modulus |-> parts[i].modulus, found |-> TRUE]
         ELSE FindPartition(parts, name, i + 1)

\* Mutant: the name is not compared; the first partition is the answer.
snapshot_partitionFirst(snapshot, name) ==
    IF Len(snapshot.partitions) = 0 THEN NoPartition
    ELSE [name |-> snapshot.partitions[1].name,
          value |-> snapshot.partitions[1].value,
          modulus |-> snapshot.partitions[1].modulus, found |-> TRUE]

snapshot_partition(snapshot, name) == FindPartition(snapshot.partitions, name, 1)

----------------------------------------------------------------------------
(* PulseCondition::is_met.  The result is "true", "false", or "abort" when *)
(* the evaluation divides by zero (tick % 0 panics).                        *)

\* Mutant: the tick != 0 test is missing.
EveryMetAtZero(period, tick) ==
    IF period = 0 THEN "abort"
    ELSE IF tick % period = 0 THEN "true" ELSE "false"

EveryMet(period, tick) ==
    IF tick = 0 THEN "false"
    ELSE IF period = 0 THEN "abort"
    ELSE IF tick % period = 0 THEN "true" ELSE "false"

\* Mutant: the lookup is unwrapped, so an absent partition panics.
PartitionEqualsMetUnwrap(name, value, snapshot) ==
    LET p == snapshot_partition(snapshot, name)
    IN  IF ~p.found THEN "abort"
        ELSE IF p.value = value THEN "true" ELSE "false"

PartitionEqualsMet(name, value, snapshot) ==
    LET p == snapshot_partition(snapshot, name)
    IN  IF p.found /\ p.value = value THEN "true" ELSE "false"

PartitionModuloMet(name, modulus, remainder, snapshot) ==
    LET p == snapshot_partition(snapshot, name)
    IN  IF p.found /\ modulus # 0 /\ p.value % modulus = remainder
        THEN "true" ELSE "false"

\* Mutant: the end point is excluded.
TickRangeMetExclusiveEnd(start, end, tick) ==
    IF tick >= start /\ tick < end THEN "true" ELSE "false"

TickRangeMet(start, end, tick) ==
    IF tick >= start /\ tick <= end THEN "true" ELSE "false"

NotMet(r) == IF r = "abort" THEN "abort" ELSE IF r = "true" THEN "false" ELSE "true"

\* !cs.is_empty() && cs.iter().all(..) over the children's results rs,
\* left to right, stopping at the first child that is not true.
RECURSIVE AllMet(_, _)
AllMet(rs, i) ==
    IF i > Len(rs) THEN "true"
    ELSE IF rs[i] = "true" THEN AllMet(rs, i + 1) ELSE rs[i]

\* Mutant: all() alone, which is vacuously true of an empty list.
AndMetVacuous(rs) == AllMet(rs, 1)

AndMet(rs) == IF Len(rs) = 0 THEN "false" ELSE AllMet(rs, 1)

\* cs.iter().any(..): stops at the first child that is not false.
RECURSIVE AnyMet(_, _)
AnyMet(rs, i) ==
    IF i > Len(rs) THEN "false"
    ELSE IF rs[i] = "false" THEN AnyMet(rs, i + 1) ELSE rs[i]

OrMet(rs) == AnyMet(rs, 1)

RECURSIVE is_met(_, _, _)
is_met(c, tick, snapshot) ==
    CASE c.type = "Every" -> EveryMet(c.period, tick)
      [] c.type = "PartitionEquals" ->
            PartitionEqualsMet(c.name, c.value, snapshot)
      [] c.type = "PartitionModulo" ->
            PartitionModuloMet(c.name, c.modulus, c.remainder, snapshot)
      [] c.type = "TickRange" -> TickRangeMet(c.start, c.end, tick)
      [] c.type = "Not" -> NotMet(is_met(c.inner, tick, snapshot))
      [] c.type = "And" ->
            AndMet([i \in 1..Len(c.children) |->
                        is_met(c.children[i], tick, snapshot)])
      [] c.type = "Or" ->
            OrMet([i \in 1..Len(c.children) |->
                        is_met(c.children[i], tick, snapshot)])

----------------------------------------------------------------------------
(* ClockError *)

Ok == [kind |-> "Ok"]
ZeroModulus(name) == [kind |-> "ZeroModulus", name |-> name]
ZeroPeriod(name) == [kind |-> "ZeroPeriod", name |-> name]
ZeroConditionModulus(pulse, partition) ==
    [kind |-> "ZeroConditionModulus", pulse |-> pulse, partition |-> partition]
UnknownPartition(pulse, partition) ==
    [kind |-> "UnknownPartition", pulse |-> pulse, partition |-> partition]
InvalidTickRange(pulse, start, end) ==
    [kind |-> "InvalidTickRange", pulse |-> pulse, start |-> start, end |-> end]
MissingPartitionOrder == [kind |-> "MissingPartitionOrder"]
DuplicatePartitionName == [kind |-> "DuplicatePartitionName"]
DuplicatePulseName == [kind |-> "DuplicatePulseName"]

ClockError ==
    {"ZeroModulus", "ZeroPeriod", "ZeroConditionModulus", "UnknownPartition",
     "InvalidTickRange", "MissingPartitionOrder"}

BuilderError == ClockError \cup {"DuplicatePartitionName", "DuplicatePulseName"}

ConditionError ==
    {"ZeroPeriod", "ZeroConditionModulus", "UnknownPartition", "InvalidTickRange"}

----------------------------------------------------------------------------
(* validate_condition: the first error of a depth-first, left-to-right walk *)

FirstError(rs) ==
    IF \E i \in 1..Len(rs) : rs[i].kind # "Ok"
    THEN rs[CHOOSE i \in 1..Len(rs) :
                rs[i].kind # "Ok" /\ \A j \in 1..(i - 1) : rs[j].kind = "Ok"]
    ELSE Ok

\* Mutant: the zero-period rule is missing.
ValidateLeafNoZeroPeriod(c, partitions, pulse_name) ==
    IF c.type \in {"PartitionEquals", "PartitionModulo"}
            /\ c.name \notin partitions
         THEN UnknownPartition(pulse_name, c.name)
    ELSE IF c.type = "PartitionModulo" /\ c.modulus = 0
         THEN ZeroConditionModulus(pulse_name, c.name)
    ELSE IF c.type = "TickRange" /\ c.start > c.end
         THEN InvalidTickRange(pulse_name, c.start, c.end)
    ELSE Ok

\* Mutant: the start <= end rule of TickRange is missing.
ValidateLeafNoTickRange(c, partitions, pulse_name) ==
    IF c.type = "Every" /\ c.period = 0 THEN ZeroPeriod(pulse_name)
    ELSE IF c.type \in {"PartitionEquals", "PartitionModulo"}
            /\ c.name \notin partitions
         THEN UnknownPartition(pulse_name, c.name)
    ELSE IF c.type = "PartitionModulo" /\ c.modulus = 0
         THEN ZeroConditionModulus(pulse_name, c.name)
    ELSE Ok

ValidateLeaf(c, partitions, pulse_name) ==
    IF c.type = "Every" /\ c.period = 0 THEN ZeroPeriod(pulse_name)
    ELSE IF c.type \in {"PartitionEquals", "PartitionModulo"}
            /\ c.name \notin partitions
         THEN UnknownPartition(pulse_name, c.name)
    ELSE IF c.type = "PartitionModulo" /\ c.modulus = 0
         THEN ZeroConditionModulus(pulse_name, c.name)
    ELSE IF c.type = "TickRange" /\ c.start > c.end
         THEN InvalidTickRange(pulse_name, c.start, c.end)
    ELSE Ok

\* Mutant: the walk does not descend into Not.
RECURSIVE validate_conditionSkipsNot(_, _, _)
validate_conditionSkipsNot(c, partitions, pulse_name) ==
    CASE c.type = "Not" -> Ok
      [] c.type \in {"And", "Or"} ->
            FirstError([i \in 1..Len(c.children) |->
                validate_conditionSkipsNot(c.children[i], partitions, pulse_name)])
      [] OTHER -> ValidateLeaf(c, partitions, pulse_name)

RECURSIVE validate_condition(_, _, _)
validate_condition(c, partitions, pulse_name) ==
    CASE c.type = "Not" -> validate_condition(c.inner, partitions, pulse_name)
      [] c.type \in {"And", "Or"} ->
            FirstError([i \in 1..Len(c.children) |->
                validate_condition(c.children[i], partitions, pulse_name)])
      [] OTHER -> ValidateLeaf(c, partitions, pulse_name)

----------------------------------------------------------------------------
(* ClockBuilder *)

LSF == "LeastSignificantFirst"
MSF == "MostSignificantFirst"
NoOrder == "None"

NewBuilder == [partitions |-> <<>>, pulses |-> <<>>, order |-> NoOrder]

HasDuplicateName(xs) ==
    \E i, j \in 1..Len(xs) : i < j /\ xs[i].name = xs[j].name

PartitionNames(parts) == {parts[i].name : i \in 1..Len(parts)}

FreshPartitions(specs) ==
    [i \in 1..Len(specs) |->
        [name |-> specs[i].name, value |-> 0, modulus |-> specs[i].modulus]]

NewClock(b) ==
    [tick |-> 0, epoch |-> 0,
     partitions |-> FreshPartitions(b.partitions),
     partition_order |-> IF b.order = NoOrder THEN LSF ELSE b.order,
     pulses |-> b.pulses]

\* The result of build(): Ok, or the first violation in the documented order.
build(b) ==
    IF HasDuplicateName(b.partitions) THEN DuplicatePartitionName
    ELSE IF \E i \in 1..Len(b.partitions) : b.partitions[i].modulus = 0
         THEN ZeroModulus(b.partitions[
                CHOOSE i \in 1..Len(b.partitions) :
                    /\ b.partitions[i].modulus = 0
                    /\ \A j \in 1..(i - 1) : b.partitions[j].modulus # 0].name)
    ELSE IF b.order = NoOrder /\ Len(b.partitions) > 0
         THEN MissingPartitionOrder
    ELSE LET rs == [i \in 1..Len(b.pulses) |->
                       validate_condition(b.pulses[i].condition,
                                          PartitionNames(b.partitions),
                                          b.pulses[i].name)]
         IN  IF FirstError(rs).kind # "Ok" THEN FirstError(rs)
             ELSE IF HasDuplicateName(b.pulses) THEN DuplicatePulseName
             ELSE Ok

----------------------------------------------------------------------------
(* PartitionState::increment and Clock::advance_partitions *)

\* Mutant: the wrap test is > instead of >=.
incrementOffByOne(p) ==
    LET v == p.value + 1
    IN  IF v > p.modulus
        THEN [partition |-> [p EXCEPT !.value = 0], carry |-> TRUE]
        ELSE [partition |-> [p EXCEPT !.value = v], carry |-> FALSE]

increment(p) ==
    LET v == p.value + 1
    IN  IF v >= p.modulus
        THEN [partition |-> [p EXCEPT !.value = 0], carry |-> TRUE]
        ELSE [partition |-> [p EXCEPT !.value = v], carry |-> FALSE]

\* Visit the partitions at the positions listed in visit, in that order,
\* while the carry is set.
\* Mutant: the cascade does not stop at a partition that did not carry.
RECURSIVE CascadeNoStop(_, _, _, _)
CascadeNoStop(parts, visit, k, carry) ==
    IF k > Len(visit) THEN parts
    ELSE LET r == increment(parts[visit[k]])
         IN  CascadeNoStop([parts EXCEPT ![visit[k]] = r.partition],
                           visit, k + 1, r.carry)

RECURSIVE Cascade(_, _, _, _)
Cascade(parts, visit, k, carry) ==
    IF k > Len(visit) \/ ~carry THEN parts
    ELSE LET r == increment(parts[visit[k]])
         IN  Cascade([parts EXCEPT ![visit[k]] = r.partition],
                     visit, k + 1, r.carry)

\* Mutant: both orders iterate from the first partition.
VisitOrderAscending(n, order) == [k \in 1..n |-> k]

VisitOrder(n, order) ==
    IF order = LSF THEN [k \in 1..n |-> k] ELSE [k \in 1..n |-> n + 1 - k]

advance_partitions(parts, order) ==
    Cascade(parts, VisitOrder(Len(parts), order), 1, TRUE)

----------------------------------------------------------------------------
(* Clock::snapshot and Clock::tick *)

snapshot(c) == [tick |-> c.tick, epoch |-> c.epoch, partitions |-> c.partitions]

OverflowName == "__overflow__"

PulseFired(name, c) == [name |-> name, tick |-> c.tick, epoch |-> c.epoch]

\* Mutant: saturating instead of wrapping addition.
NextTickSaturating(t) == IF t + 1 >= U64Mod THEN t ELSE t + 1
NextTick(t) == (t + 1) % U64Mod
\* Mutant: the overflow is detected one value too late.
TickOverflowedLate(t) == t + 1 > U64Mod
TickOverflowed(t) == t + 1 >= U64Mod
\* Mutant: the epoch is not incremented on overflow.
NextEpochStuck(e, overflowed) == e
NextEpoch(e, overflowed) == IF overflowed THEN (e + 1) % U64Mod ELSE e

\* The pulses whose condition is met, in registration order.
RECURSIVE FiredPulses(_, _, _)
FiredPulses(pulses, i, c) ==
    IF i > Len(pulses) THEN <<>>
    ELSE IF is_met(pulses[i].condition, c.tick, snapshot(c)) = "true"
         THEN <<PulseFired(pulses[i].name, c)>> \o FiredPulses(pulses, i + 1, c)
         ELSE FiredPulses(pulses, i + 1, c)

\* Mutant: the overflow pulse is never added.
OverflowPulseNever(overflowed, c) == <<>>

OverflowPulse(overflowed, c) ==
    IF overflowed THEN <<PulseFired(OverflowName, c)>> ELSE <<>>

\* tick() panics when the evaluation of some pulse divides by zero.
TickAborts(c) ==
    \E i \in 1..Len(c.pulses) :
        is_met(c.pulses[i].condition, c.tick, snapshot(c)) = "abort"

\* Mutant: the pulse list is drained by the step.
AdvancedDrainsPulses(c) ==
    [c EXCEPT !.tick = NextTick(c.tick),
              !.epoch = NextEpoch(c.epoch, TickOverflowed(c.tick)),
              !.partitions = advance_partitions(c.partitions, c.partition_order),
              !.pulses = <<>>]

\* Mutant: the step that wraps tick starts the partitions over.
AdvancedResetsOnOverflow(c) ==
    [c EXCEPT !.tick = NextTick(c.tick),
              !.epoch = NextEpoch(c.epoch, TickOverflowed(c.tick)),
              !.partitions =
                  IF TickOverflowed(c.tick)
                  THEN [i \in 1..Len(c.partitions) |->
                           [c.partitions[i] EXCEPT !.value = 0]]
                  ELSE advance_partitions(c.partitions, c.partition_order)]

\* The clock after the counters and the partitions have advanced.
Advanced(c) ==
    [c EXCEPT !.tick = NextTick(c.tick),
              !.epoch = NextEpoch(c.epoch, TickOverflowed(c.tick)),
              !.partitions = advance_partitions(c.partitions, c.partition_order)]

\* Mutant: the overflow pulse is pushed before the user pulses.
TickOutcomeOverflowFirst(c, overflowed) ==
    [snapshot |-> snapshot(c),
     pulses |-> OverflowPulse(overflowed, c) \o FiredPulses(c.pulses, 1, c),
     overflowed |-> overflowed]

TickOutcome(c, overflowed) ==
    [snapshot |-> snapshot(c),
     pulses |-> FiredPulses(c.pulses, 1, c) \o OverflowPulse(overflowed, c),
     overflowed |-> overflowed]

----------------------------------------------------------------------------
(* Subscriber channel: Clock::subscribe, Clock::subscribe_bounded and the  *)
(* broadcast of tick().  A subscriber is the sending end held by the clock *)
(* (policy, capacity, queue of undelivered outcomes) together with what    *)
(* the receiving end has taken out of the queue so far.                    *)

Unbounded == "Unbounded"
DropNewest == "DropNewest"
DropOldest == "DropOldest"

NewSubscriber(policy, capacity, at) ==
    [policy |-> policy, capacity |-> capacity, attached |-> at,
     queue |-> <<>>, received |-> <<>>]

\* Mutant: a bounded queue that is full takes the outcome all the same.
PublishNoDrop(sub, o) == [sub EXCEPT !.queue = Append(@, o)]

\* Publication to one subscriber; never blocks.
Publish(sub, o) ==
    IF sub.policy = Unbounded \/ Len(sub.queue) < sub.capacity
    THEN [sub EXCEPT !.queue = Append(@, o)]
    ELSE IF sub.policy = DropNewest \/ sub.capacity = 0
         THEN sub
         ELSE [sub EXCEPT !.queue = Append(Tail(@), o)]

broadcast(subs, o) == [i \in 1..Len(subs) |-> Publish(subs[i], o)]

----------------------------------------------------------------------------
(* The raw-buffer path of the host bridge: snapshot_raw(out) and           *)
(* tick_raw(snapshot_out, pulse_bits_out).  A buffer word is a u32, scaled *)
(* with the counters to half their width (rounded up).                     *)

U32Bits == (WordBits + 1) \div 2
U32Mod == 2 ^ U32Bits

\* Mutant: only the low word of a value is written.
HiDropped(v) == 0

Lo(v) == v % U32Mod
Hi(v) == (v \div U32Mod) % U32Mod

Flag(b) == IF b THEN 1 ELSE 0

RECURSIVE PartitionWords(_, _)
PartitionWords(parts, i) ==
    IF i > Len(parts) THEN <<>>
    ELSE <<Lo(parts[i].value), Hi(parts[i].value)>> \o PartitionWords(parts, i + 1)

raw_snapshot_len(c) == 6 + 2 * Len(c.partitions)

\* [tick_lo, tick_hi, epoch_lo, epoch_hi, overflowed, partition_count,
\*  p0_lo, p0_hi, p1_lo, p1_hi, ...]
RawSnapshot(c, overflowed) ==
    <<Lo(c.tick), Hi(c.tick), Lo(c.epoch), Hi(c.epoch), Flag(overflowed),
      Len(c.partitions)>> \o PartitionWords(c.partitions, 1)

\* One bit per pulse in registration order and one reserved bit for
\* __overflow__ after them.
raw_pulse_words(c) == (Len(c.pulses) + 1 + U32Bits - 1) \div U32Bits

\* Mutant: the reserved bit is never set.
FiredBitsNoOverflow(c, overflowed) ==
    [j \in 1..(Len(c.pulses) + 1) |->
        /\ j <= Len(c.pulses)
        /\ is_met(c.pulses[j].condition, c.tick, snapshot(c)) = "true"]

FiredBits(c, overflowed) ==
    [j \in 1..(Len(c.pulses) + 1) |->
        IF j <= Len(c.pulses)
        THEN is_met(c.pulses[j].condition, c.tick, snapshot(c)) = "true"
        ELSE overflowed]

\* The word made of the U32Bits bits that follow the first base bits.
RECURSIVE PackWord(_, _, _)
PackWord(bits, base, k) ==
    IF k >= U32Bits THEN 0
    ELSE (IF base + k + 1 <= Len(bits) /\ bits[base + k + 1] THEN 2 ^ k ELSE 0)
            + PackWord(bits, base, k + 1)

PulseBits(c, overflowed) ==
    [w \in 1..raw_pulse_words(c) |->
        PackWord(FiredBits(c, overflowed), (w - 1) * U32Bits, 0)]

----------------------------------------------------------------------------
(* The host bridge's condition literals: parse_condition turns a tagged    *)
(* object ({type: 'every', period: 60n}, ..) into a PulseCondition or an   *)
(* error.  A literal is a record; a property that the object lacks is a    *)
(* field that the record lacks.                                            *)

Parsed(v) == [ok |-> TRUE, value |-> v]
Rejected(message) == [ok |-> FALSE, error |-> message]

HasField(obj, key) == key \in DOMAIN obj

\* get_u64(&obj, key): the property as a u64, if it is one.
get_u64(obj, key) ==
    IF HasField(obj, key) /\ obj[key] \in 0..U64Max
    THEN Parsed(obj[key])
    ELSE Rejected("field must be u64")

\* get_string(&obj, key): the property as a string, if it is there.
get_string(obj, key) ==
    IF HasField(obj, key) THEN Parsed(obj[key])
    ELSE Rejected("field must be string")

RECURSIVE parse_conditionIgnoresUnknown(_)
RECURSIVE get_conditionsIgnoresUnknown(_, _)

\* Mutant: the parsed children, parsed by the mutant below.
get_conditionsIgnoresUnknown(items, i) ==
    IF i > Len(items) THEN Parsed(<<>>)
    ELSE LET head == parse_conditionIgnoresUnknown(items[i])
             rest == get_conditionsIgnoresUnknown(items, i + 1)
         IN  IF ~head.ok THEN head
             ELSE IF ~rest.ok THEN rest
             ELSE Parsed(<<head.value>> \o rest.value)

\* Mutant: an unknown discriminator is taken for a condition that never
\* holds instead of being rejected.
parse_conditionIgnoresUnknown(value) ==
    IF ~HasField(value, "type") THEN Rejected("type must be string")
    ELSE CASE value.type = "every" ->
                LET period == get_u64(value, "period")
                IN  IF period.ok THEN Parsed(Every(period.value)) ELSE period
           [] value.type = "partition_equals" ->
                LET name == get_string(value, "name")
                    v == get_u64(value, "value")
                IN  IF ~name.ok THEN name
                    ELSE IF ~v.ok THEN v
                    ELSE Parsed(PartitionEquals(name.value, v.value))
           [] value.type = "and" ->
                LET cs == IF HasField(value, "conditions")
                          THEN get_conditionsIgnoresUnknown(value.conditions, 1)
                          ELSE Rejected("conditions must be array")
                IN  IF cs.ok THEN Parsed(And(cs.value)) ELSE cs
           [] value.type = "or" ->
                LET cs == IF HasField(value, "conditions")
                          THEN get_conditionsIgnoresUnknown(value.conditions, 1)
                          ELSE Rejected("conditions must be array")
                IN  IF cs.ok THEN Parsed(Or(cs.value)) ELSE cs
           [] value.type = "not" ->
                IF ~HasField(value, "condition")
                THEN Rejected("type must be string")
                ELSE LET inner == parse_conditionIgnoresUnknown(value.condition)
                     IN  IF inner.ok THEN Parsed(Not(inner.value)) ELSE inner
           [] OTHER -> Parsed(Or(<<>>))

RECURSIVE parse_condition(_)
RECURSIVE ParseEach(_, _)

\* The literals of an array parsed left to right from index i; the first
\* error is the result.
ParseEach(items, i) ==
    IF i > Len(items) THEN Parsed(<<>>)
    ELSE LET head == parse_condition(items[i])
             rest == ParseEach(items, i + 1)
         IN  IF ~head.ok THEN head
             ELSE IF ~rest.ok THEN rest
             ELSE Parsed(<<head.value>> \o rest.value)

\* get_conditions(&obj): the parsed elements of the "conditions" array.
get_conditions(obj) ==
    IF HasField(obj, "conditions") THEN ParseEach(obj.conditions, 1)
    ELSE Rejected("conditions must be array")

\* parse_condition(value).  Reading "type" off a value that is no object
\* (the "condition" of a literal that has none) fails like a missing type.
parse_condition(value) ==
    IF ~HasField(value, "type") THEN Rejected("type must be string")
    ELSE CASE value.type = "every" ->
                LET period == get_u64(value, "period")
                IN  IF period.ok THEN Parsed(Every(period.value)) ELSE period
           [] value.type = "partition_equals" ->
                LET name == get_string(value, "name")
                    v == get_u64(value, "value")
                IN  IF ~name.ok THEN name
                    ELSE IF ~v.ok THEN v
                    ELSE Parsed(PartitionEquals(name.value, v.value))
           [] value.type = "and" ->
                LET cs == get_conditions(value)
                IN  IF cs.ok THEN Parsed(And(cs.value)) ELSE cs
           [] value.type = "or" ->
                LET cs == get_conditions(value)
                IN  IF cs.ok THEN Parsed(Or(cs.value)) ELSE cs
           [] value.type = "not" ->
                IF ~HasField(value, "condition")
                THEN Rejected("type must be string")
                ELSE LET inner == parse_condition(value.condition)
                     IN  IF inner.ok THEN Parsed(Not(inner.value)) ELSE inner
           [] OTHER -> Rejected("unknown condition type")

\* No pulse_condition call has been made yet.
NoRegistration == [called |-> FALSE]

----------------------------------------------------------------------------
(* Engine: the fixed-timestep loop of the page.  Times are whole           *)
(* milliseconds; alpha is the fraction num / den.                          *)

MAX_TICKS_PER_FRAME == 5

\* The animation-frame requests of one run, and the latest timestamp.
MaxFrames == 4
MaxTime == 16

DefaultTickRateMs == 1000

\* The Engine after construction: stopped, all signals 0, no frame requested.
NewEngine ==
    [running |-> FALSE, tick |-> 0, alpha |-> [num |-> 0, den |-> 1],
     deltaMs |-> 0, rafId |-> <<>>, lastFrameTime |-> 0, accumulator |-> 0,
     tickCount |-> 0, tickRateMs |-> DefaultTickRateMs]

\* The browser has no animation-frame request, pending or cancelled.
NoFrames == [next |-> 1, pending |-> {}, cancelled |-> {}]

NoCall == [op |-> "none"]

\* The values that a caller can pass for tickRateMs.
Number(n) == [kind |-> "number", value |-> n]
NaN == [kind |-> "NaN"]
PosInfinity == [kind |-> "Infinity"]
NegInfinity == [kind |-> "-Infinity"]
NotNumber == [kind |-> "string"]

\* typeof tickRateMs === 'number'
TypeofNumber(arg) == arg.kind # "string"

\* Mutant: zero passes the comparison.
LessOrEqualZeroStrict(arg) ==
    \/ arg.kind = "number" /\ arg.value < 0
    \/ arg.kind = "-Infinity"

\* tickRateMs <= 0; every comparison with NaN is false.
LessOrEqualZero(arg) ==
    \/ arg.kind = "number" /\ arg.value <= 0
    \/ arg.kind = "-Infinity"

\* Number.isFinite(tickRateMs)
IsFinite(arg) == arg.kind = "number"

\* The argument test of start().
StartThrows(arg) ==
    ~TypeofNumber(arg) \/ LessOrEqualZero(arg) \/ ~IsFinite(arg)

\* Mutant: the loop of the frame callback without the cap on its rounds.
RECURSIVE FrameLoopUncapped(_, _, _, _)
FrameLoopUncapped(accumulator, tickCount, ticksThisFrame, tickRateMs) ==
    IF accumulator >= tickRateMs /\ tickRateMs > 0
    THEN FrameLoopUncapped(accumulator - tickRateMs, tickCount + 1,
                           ticksThisFrame + 1, tickRateMs)
    ELSE [accumulator |-> accumulator, tickCount |-> tickCount,
          ticksThisFrame |-> ticksThisFrame]

\* Mutant: the loop leaves nothing in the accumulator once it has ticked.
FrameLoopDropsRemainder(accumulator, tickCount, ticksThisFrame, tickRateMs) ==
    LET left == MAX_TICKS_PER_FRAME - ticksThisFrame
        due == IF accumulator >= tickRateMs THEN accumulator \div tickRateMs
               ELSE 0
        rounds == IF due < left THEN due ELSE left
    IN  [accumulator |-> IF rounds > 0 THEN 0 ELSE accumulator,
         tickCount |-> tickCount + rounds,
         ticksThisFrame |-> ticksThisFrame + rounds]

\* while (accumulator >= tickRateMs && ticksThisFrame < MAX_TICKS_PER_FRAME)
RECURSIVE FrameLoop(_, _, _, _)
FrameLoop(accumulator, tickCount, ticksThisFrame, tickRateMs) ==
    IF accumulator >= tickRateMs /\ ticksThisFrame < MAX_TICKS_PER_FRAME
    THEN FrameLoop(accumulator - tickRateMs, tickCount + 1,
                   ticksThisFrame + 1, tickRateMs)
    ELSE [accumulator |-> accumulator, tickCount |-> tickCount,
          ticksThisFrame |-> ticksThisFrame]

\* Mutant: the frame callback without its test of running.
frameUnguarded(e, now, id) ==
    LET delta == now - e.lastFrameTime
        done == FrameLoop(e.accumulator + delta, e.tickCount, 0, e.tickRateMs)
        kept == IF done.accumulator > e.tickRateMs THEN e.tickRateMs
                ELSE done.accumulator
    IN  [e EXCEPT !.lastFrameTime = now,
                  !.accumulator = kept,
                  !.tickCount = done.tickCount,
                  !.tick = IF done.ticksThisFrame > 0 THEN done.tickCount ELSE @,
                  !.alpha = [num |-> kept, den |-> e.tickRateMs],
                  !.deltaMs = delta,
                  !.rafId = <<id>>]

\* frame(now): the engine after the callback has run at timestamp now; id
\* is the handle that its requestAnimationFrame call returns.
frame(e, now, id) ==
    IF ~e.running THEN e
    ELSE LET delta == now - e.lastFrameTime
             done == FrameLoop(e.accumulator + delta, e.tickCount, 0,
                               e.tickRateMs)
             kept == IF done.accumulator > e.tickRateMs THEN e.tickRateMs
                     ELSE done.accumulator
         IN  [e EXCEPT !.lastFrameTime = now,
                       !.accumulator = kept,
                       !.tickCount = done.tickCount,
                       !.tick = IF done.ticksThisFrame > 0 THEN done.tickCount
                                ELSE @,
                       !.alpha = [num |-> kept, den |-> e.tickRateMs],
                       !.deltaMs = delta,
                       !.rafId = <<id>>]

\* requestAnimationFrame and cancelAnimationFrame
Requested(r) == [r EXCEPT !.next = @ + 1, !.pending = @ \cup {r.next}]
Cancelled(r, id) ==
    IF id \in r.pending
    THEN [r EXCEPT !.pending = @ \ {id}, !.cancelled = @ \cup {id}]
    ELSE r

----------------------------------------------------------------------------
(* History of the engine's run, for the statements about elapsed time.     *)

\* No run has started.
NoRun == [started |-> 0, capped |-> FALSE, backward |-> FALSE]

\* The run that start() begins when performance.now() is now.
RunStarted(now) == [started |-> now, capped |-> FALSE, backward |-> FALSE]

\* The loop of the frame callback at timestamp now, as frame() runs it.
LoopAt(e, now) ==
    FrameLoop(e.accumulator + (now - e.lastFrameTime), e.tickCount, 0,
              e.tickRateMs)

\* The run after a frame callback at timestamp now: the loop has stopped at
\* the cap with a whole period left (capped), or the timestamp is below
\* the previous one (backward).
RunAfterFrame(r, e, now) ==
    IF ~e.running THEN r
    ELSE [r EXCEPT !.capped = @ \/ LoopAt(e, now).accumulator >= e.tickRateMs,
                   !.backward = @ \/ now < e.lastFrameTime]

----------------------------------------------------------------------------
(* AnimatedLoader: a skin that runs for durationTicks ticks of the clock.  *)
(* progress is a JavaScript number: a fraction num / den, NaN (0 / 0) or   *)
(* -Infinity (a negative number / 0).                                      *)

\* The ticks that the clock state of a render carries, and the calls of
\* onComplete that a loader is followed for.
MaxLoaderTick == 4
MaxCompletions == 2

\* No loader has been constructed.
NoLoader == [constructed |-> FALSE]

Fraction(n, d) == [kind |-> "number", num |-> n, den |-> d]

\* Math.min(1, elapsed / durationTicks), durationTicks >= 0
Progress(elapsed, durationTicks) ==
    IF durationTicks = 0
    THEN IF elapsed > 0 THEN Fraction(1, 1)
         ELSE IF elapsed = 0 THEN [kind |-> "NaN"]
         ELSE [kind |-> "-Infinity"]
    ELSE IF elapsed >= durationTicks THEN Fraction(1, 1)
    ELSE Fraction(elapsed, durationTicks)

\* progress >= 1
AtLeastOne(p) == p.kind = "number" /\ p.num >= p.den

\* The state of a loader after construction and after reset().
LoaderReset ==
    [startTick |-> 0 - 1, currentTick |-> 0, progress |-> Fraction(0, 1),
     completed |-> FALSE, running |-> FALSE]

\* new AnimatedLoader(config); onComplete counts the calls of the callback.
NewLoader(durationTicks, loop) ==
    [constructed |-> TRUE, durationTicks |-> durationTicks, loop |-> loop,
     state |-> LoaderReset, onComplete |-> 0, op |-> [name |-> "new"]]

\* The state after start(currentTick).
LoaderStarted(currentTick) ==
    [startTick |-> currentTick, currentTick |-> currentTick,
     progress |-> Fraction(0, 1), completed |-> FALSE, running |-> TRUE]

\* Mutant: a loader that does not loop keeps running after it completes.
LoaderRenderKeepsRunning(l, tick) ==
    LET st == IF l.state.startTick = 0 - 1 THEN LoaderStarted(tick)
              ELSE l.state
        progress == Progress(tick - st.startTick, l.durationTicks)
        seen == [st EXCEPT !.currentTick = tick, !.progress = progress]
    IN  IF tick # st.currentTick /\ st.running
        THEN IF AtLeastOne(progress) /\ ~st.completed
             THEN [l EXCEPT !.onComplete = @ + 1,
                            !.state = IF l.loop THEN LoaderStarted(tick)
                                      ELSE [seen EXCEPT !.completed = TRUE]]
             ELSE [l EXCEPT !.state = seen]
        ELSE [l EXCEPT !.state = st]

\* render(r, clockState, t) with clockState.tick = tick: the loader after
\* the call.
LoaderRender(l, tick) ==
    LET st == IF l.state.startTick = 0 - 1 THEN LoaderStarted(tick)
              ELSE l.state
        progress == Progress(tick - st.startTick, l.durationTicks)
        seen == [st EXCEPT !.currentTick = tick, !.progress = progress]
    IN  IF tick # st.currentTick /\ st.running
        THEN IF AtLeastOne(progress) /\ ~st.completed
             THEN [l EXCEPT !.onComplete = @ + 1,
                            !.state = IF l.loop THEN LoaderStarted(tick)
                                      ELSE [seen EXCEPT !.completed = TRUE,
                                                        !.running = FALSE]]
             ELSE [l EXCEPT !.state = seen]
        ELSE [l EXCEPT !.state = st]

----------------------------------------------------------------------------
(* ConwaySkin: the skin whose grid lives one generation per clock tick.    *)
(* The grid itself is not modelled: isStagnant(grid, prevGrid) is an input *)
(* of the render.  since and computed are history: the tick at which the   *)
(* grid was initialised and the calls of nextGeneration made since.        *)

\* state.generation % 60 === 0
ReseedEvery == 60

\* The ticks that the clock state of a render carries.
MaxConwayTick == 5

\* The module's state before the first render.
NewConway ==
    [initialized |-> FALSE, lastTick |-> 0 - 1, generation |-> 0,
     since |-> 0, computed |-> 0]

\* The first part of render: initialise the grid if needed.
ConwaySeeded(c, tick) ==
    IF ~c.initialized
    THEN [c EXCEPT !.initialized = TRUE, !.lastTick = tick, !.generation = 0,
                   !.since = tick, !.computed = 0]
    ELSE c

\* render(r, clockState, t) with clockState.tick = tick; stagnant is what
\* isStagnant answers about the new grid.
ConwayRender(c, tick, stagnant) ==
    LET st == ConwaySeeded(c, tick)
    IN  IF tick # st.lastTick
        THEN [st EXCEPT !.generation =
                            IF (@ + 1) % ReseedEvery = 0 \/ stagnant THEN 0
                            ELSE @ + 1,
                        !.lastTick = tick,
                        !.computed = @ + 1]
        ELSE st

----------------------------------------------------------------------------
(* createApp: an app with an engine of its own, a render loop and a scene. *)
(* Every scene has both callbacks; received[s] is the sequence of the      *)
(* onEnter and onExit calls that scene s has received.                     *)

\* The scenes of the app; config.scene is the first.
Scenes == {"a", "b"}
FirstScene == "a"

\* The callbacks that one scene is followed for.
MaxCalls == 4

\* The app that createApp returns: engine.running() is false, no frame of
\* the render loop is requested.
NewApp ==
    [running |-> FALSE, rafId |-> FALSE, scene |-> FirstScene,
     received |-> [s \in Scenes |-> <<>>]]

\* scene.onEnter(state()) and scene.onExit(state())
Entered(a, s) == [a EXCEPT !.received[s] = Append(@, "onEnter")]
Exited(a, s) == [a EXCEPT !.received[s] = Append(@, "onExit")]

\* app.start()
AppStarted(a) ==
    IF a.running THEN a
    ELSE [Entered(a, a.scene) EXCEPT !.running = TRUE, !.rafId = TRUE]

\* app.stop()
AppStopped(a) ==
    Exited([a EXCEPT !.running = FALSE, !.rafId = FALSE], a.scene)

\* app.setScene(newScene)
SceneSet(a, newScene) ==
    Entered([Exited(a, a.scene) EXCEPT !.scene = newScene], newScene)

----------------------------------------------------------------------------
(* State machine *)

NoClock ==
    [tick |-> 0, epoch |-> 0, partitions |-> <<>>, partition_order |-> LSF,
     pulses |-> <<>>]

NoOutcome ==
    [snapshot |-> [tick |-> 0, epoch |-> 0, partitions |-> <<>>],
     pulses |-> <<>>, overflowed |-> FALSE]

NotBuilt == [kind |-> "NotBuilt"]

\* No observer is attached and the caller has supplied no buffer yet.
HostInit ==
    /\ snap = <<>>
    /\ subscribers = <<>>
    /\ snapshot_out = <<>>
    /\ pulse_bits_out = <<>>
    /\ registration = NoRegistration
    /\ engine = NewEngine
    /\ raf = NoFrames
    /\ call = NoCall
    /\ run = NoRun
    /\ loader = NoLoader
    /\ conway = NewConway
    /\ app = NewApp

Init ==
    /\ builder = NewBuilder
    /\ phase = "Unbuilt"
    /\ build_result = NotBuilt
    /\ clock = NoClock
    /\ outcome = NoOutcome
    /\ steps = 0
    /\ HostInit

\* ClockBuilder::partition_order / least_significant_first / ..
SetPartitionOrder(order) ==
    /\ phase = "Unbuilt"
    /\ builder' = [builder EXCEPT !.order = order]
    /\ UNCHANGED <<registration, page>>
    /\ UNCHANGED <<phase, build_result, clock, outcome, steps, host>>

\* ClockBuilder::partition(name, modulus)
AddPartition(name, modulus) ==
    /\ phase = "Unbuilt"
    /\ Len(builder.partitions) < MaxPartitions
    /\ builder' = [builder EXCEPT !.partitions =
                       Append(@, [name |-> name, modulus |-> modulus])]
    /\ UNCHANGED <<registration, page>>
    /\ UNCHANGED <<phase, build_result, clock, outcome, steps, host>>

\* ClockBuilder::pulse_when(name, condition)
PulseWhen(name, condition) ==
    /\ phase = "Unbuilt"
    /\ Len(builder.pulses) < MaxPulses
    /\ builder' = [builder EXCEPT !.pulses =
                       Append(@, [name |-> name, condition |-> condition])]
    /\ UNCHANGED <<registration, page>>
    /\ UNCHANGED <<phase, build_result, clock, outcome, steps, host>>

\* ClockBuilder::pulse_every(name, period)
PulseEvery(name, period) ==
    /\ phase = "Unbuilt"
    /\ Len(builder.pulses) < MaxPulses
    /\ builder' = [builder EXCEPT !.pulses =
                       Append(@, [name |-> name, condition |-> Every(period)])]
    /\ UNCHANGED <<registration, page>>
    /\ UNCHANGED <<phase, build_result, clock, outcome, steps, host>>

\* WasmClockBuilder::pulse_condition(name, condition): the literal is parsed;
\* an error is thrown to the caller and the builder is left as it was.
PulseCondition(name, literal) ==
    /\ phase = "Unbuilt"
    /\ Len(builder.pulses) < MaxPulses
    /\ LET parsed == parse_condition(literal)
       IN  /\ registration' = [called |-> TRUE, name |-> name,
                               literal |-> literal, result |-> parsed]
           /\ builder' = IF parsed.ok
                         THEN [builder EXCEPT !.pulses =
                                  Append(@, [name |-> name,
                                             condition |-> parsed.value])]
                         ELSE builder
    /\ UNCHANGED <<phase, build_result, clock, outcome, steps, host, page>>

\* ClockBuilder::build()
Build ==
    /\ phase = "Unbuilt"
    /\ build_result' = build(builder)
    /\ IF build(builder).kind = "Ok"
       THEN phase' = "Running" /\ clock' = NewClock(builder)
       ELSE phase' = "Failed" /\ clock' = clock
    /\ UNCHANGED <<registration, page>>
    /\ UNCHANGED <<builder, outcome, steps, host>>

\* Mutant: the outcome is returned without being broadcast.
TickCallNoBroadcast ==
    /\ phase = "Running"
    /\ LET c == Advanced(clock)
           o == TickOutcome(c, TickOverflowed(clock.tick))
       IN  IF TickAborts(c)
           THEN /\ phase' = "Aborted"
                /\ clock' = c
                /\ outcome' = outcome
           ELSE /\ phase' = phase
                /\ clock' = c
                /\ outcome' = o
    /\ steps' = steps + 1
    /\ UNCHANGED <<registration, page>>
    /\ UNCHANGED <<builder, build_result, host>>

\* Mutant: a tick() that finds the queue of a subscriber full returns the
\* previous outcome without advancing the clock.
TickCallWaitsForSubscribers ==
    /\ phase = "Running"
    /\ LET c == Advanced(clock)
           o == TickOutcome(c, TickOverflowed(clock.tick))
           full == \E i \in 1..Len(subscribers) :
                      /\ subscribers[i].policy # Unbounded
                      /\ Len(subscribers[i].queue) >= subscribers[i].capacity
       IN  IF full
           THEN UNCHANGED <<phase, clock, outcome, subscribers>>
           ELSE /\ phase' = phase
                /\ clock' = c
                /\ outcome' = o
                /\ subscribers' = broadcast(subscribers, o)
    /\ steps' = steps + 1
    /\ UNCHANGED <<registration, page>>
    /\ UNCHANGED <<builder, build_result, snap, snapshot_out, pulse_bits_out>>

\* Clock::tick()
TickCall ==
    /\ phase = "Running"
    /\ LET c == Advanced(clock)
           o == TickOutcome(c, TickOverflowed(clock.tick))
       IN  IF TickAborts(c)
           THEN /\ phase' = "Aborted"
                /\ clock' = c
                /\ outcome' = outcome
                /\ subscribers' = subscribers
           ELSE /\ phase' = phase
                /\ clock' = c
                /\ outcome' = o
                /\ subscribers' = broadcast(subscribers, o)
    /\ steps' = steps + 1
    /\ UNCHANGED <<registration, page>>
    /\ UNCHANGED <<builder, build_result, snap, snapshot_out, pulse_bits_out>>

Tick == steps < MaxSteps /\ TickCall

\* WasmClock::tick_raw(snapshot_out, pulse_bits_out): one step of the
\* clock, written to the two buffers instead of returned.
TickRawCall ==
    /\ phase = "Running"
    /\ LET c == Advanced(clock)
           overflowed == TickOverflowed(clock.tick)
       IN  IF TickAborts(c)
           THEN /\ phase' = "Aborted"
                /\ clock' = c
                /\ UNCHANGED <<subscribers, snapshot_out, pulse_bits_out>>
           ELSE /\ phase' = phase
                /\ clock' = c
                /\ snapshot_out' = RawSnapshot(c, overflowed)
                /\ pulse_bits_out' = PulseBits(c, overflowed)
                /\ subscribers' = broadcast(subscribers, TickOutcome(c, overflowed))
    /\ steps' = steps + 1
    /\ UNCHANGED <<registration, page>>
    /\ UNCHANGED <<builder, build_result, outcome, snap>>

\* WasmClock::snapshot_raw(out): the current state, written to the buffer.
\* The overflow word it writes outside a step is not documented: either.
SnapshotRawCall(overflowed) ==
    /\ phase = "Running"
    /\ snapshot_out' = RawSnapshot(clock, overflowed)
    /\ UNCHANGED <<registration, page>>
    /\ UNCHANGED <<builder, phase, build_result, clock, outcome, steps,
                   snap, subscribers, pulse_bits_out>>

\* Mutant: snapshot() is taken by stepping the clock.
SnapshotCallAdvances ==
    /\ phase = "Running"
    /\ snap' = <<snapshot(Advanced(clock))>>
    /\ clock' = Advanced(clock)
    /\ UNCHANGED <<registration, page>>
    /\ UNCHANGED <<builder, phase, build_result, outcome, steps,
                   subscribers, snapshot_out, pulse_bits_out>>

\* Clock::snapshot(&self)
SnapshotCall ==
    /\ phase = "Running"
    /\ snap' = <<snapshot(clock)>>
    /\ UNCHANGED <<registration, page>>
    /\ UNCHANGED <<builder, phase, build_result, clock, outcome, steps,
                   subscribers, snapshot_out, pulse_bits_out>>

----------------------------------------------------------------------------
(* Inputs of the builder calls *)

PartitionNameMenu == {"sec", "min"}
ModulusMenu == {0, 2, 3}
OrderMenu == {LSF, MSF}

\* pulse_every(name, period)
PulseEveryMenu == {<<"p", 1>>, <<"p", 2>>, <<"q", 3>>, <<"q", 0>>}

\* pulse_when(name, condition)
PulseWhenMenu ==
    { <<"p", TickRange(1, 2)>>,
      <<"p", TickRange(2, 1)>>,
      <<"q", PartitionEquals("sec", 1)>>,
      <<"p", PartitionModulo("sec", 2, 1)>>,
      <<"q", PartitionModulo("min", 0, 0)>>,
      <<"q", And(<<>>)>>,
      <<"p", Or(<<>>)>>,
      <<"q", Not(Every(2))>>,
      <<"p", And(<<PartitionEquals("sec", 0), Every(0)>>)>>,
      <<"q", Or(<<Every(3), Not(TickRange(2, 1))>>)>> }

Next ==
    \/ \E order \in OrderMenu : SetPartitionOrder(order)
    \/ \E name \in PartitionNameMenu, modulus \in ModulusMenu :
            AddPartition(name, modulus)
    \/ \E pe \in PulseEveryMenu : PulseEvery(pe[1], pe[2])
    \/ \E pw \in PulseWhenMenu : PulseWhen(pw[1], pw[2])
    \/ Build
    \/ Tick

Spec == Init /\ [][Next]_vars

----------------------------------------------------------------------------
(* Clocks of the documentation, freshly built and ticked through one full *)
(* cycle of their partitions.                                             *)

PartitionSpec(name, modulus) == [name |-> name, modulus |-> modulus]

CascadePartitions ==
    { <<PartitionSpec("sec", 60), PartitionSpec("min", 60)>>,
      <<PartitionSpec("sec", 2), PartitionSpec("min", 3)>>,
      <<PartitionSpec("sec", 2), PartitionSpec("min", 3), PartitionSpec("hour", 2)>>,
      <<PartitionSpec("frame", 1), PartitionSpec("sec", 3)>> }

CascadeBuilders ==
    { [partitions |-> ps, pulses |-> <<>>, order |-> o] :
        ps \in CascadePartitions, o \in OrderMenu }

RECURSIVE Product(_, _)
Product(parts, i) ==
    IF i > Len(parts) THEN 1 ELSE parts[i].modulus * Product(parts, i + 1)

InitCascade ==
    /\ builder \in CascadeBuilders
    /\ build(builder).kind = "Ok"
    /\ phase = "Running"
    /\ build_result = build(builder)
    /\ clock = NewClock(builder)
    /\ outcome = NoOutcome
    /\ steps = 0
    /\ HostInit

CascadeTick == steps <= Product(clock.partitions, 1) /\ TickCall

NextCascade == CascadeTick

SpecCascade == InitCascade /\ [][NextCascade]_vars

----------------------------------------------------------------------------
(* A clock driven by nothing but tick() *)

\* The clock c after n calls of tick(); each step reads the counter of the
\* clock it advances, which is never below 0.
RECURSIVE Run(_, _)
Run(c, n) ==
    IF n = 0 \/ c.tick < 0 THEN c ELSE Run(Advanced(c), n - 1)

\* The outcome of the n-th tick() of the clock b builds, n >= 1.
OutcomeAt(b, n) ==
    LET c == Run(NewClock(b), n - 1)
    IN  TickOutcome(Advanced(c), TickOverflowed(c.tick))

----------------------------------------------------------------------------
(* The lifecycle of one clock: configuration, build(), then tick() and     *)
(* snapshot() calls in any order, past one wrap of tick.                   *)

LifecyclePartitionMenu == {<<"sec", 2>>, <<"min", 3>>}
LifecyclePulseEveryMenu == {<<"p", 2>>}
LifecyclePulseWhenMenu ==
    {<<"q", PartitionEquals("sec", 1)>>, <<"q", TickRange(1, 2)>>}

LifecycleSteps == U64Mod + 2

LifecycleTick == steps < LifecycleSteps /\ TickCall

Snapshot == SnapshotCall

NextLifecycle ==
    \/ \E order \in OrderMenu : SetPartitionOrder(order)
    \/ \E pm \in LifecyclePartitionMenu : AddPartition(pm[1], pm[2])
    \/ \E pe \in LifecyclePulseEveryMenu : PulseEvery(pe[1], pe[2])
    \/ \E pw \in LifecyclePulseWhenMenu : PulseWhen(pw[1], pw[2])
    \/ Build
    \/ LifecycleTick
    \/ Snapshot

SpecLifecycle == Init /\ [][NextLifecycle]_vars

----------------------------------------------------------------------------
(* Observers of a running clock: subscribe(), subscribe_bounded(n), the    *)
(* receiving ends draining their queues, and tick() publishing to them.    *)

MaxSubscribers == 2
MaxObservedSteps == 3

CapacityMenu == {1, 2}
DropPolicyMenu == {DropNewest, DropOldest}

\* Clock::subscribe()
Subscribe ==
    /\ phase = "Running"
    /\ Len(subscribers) < MaxSubscribers
    /\ subscribers' = Append(subscribers, NewSubscriber(Unbounded, 0, steps))
    /\ UNCHANGED <<registration, page>>
    /\ UNCHANGED <<builder, phase, build_result, clock, outcome, steps,
                   snap, snapshot_out, pulse_bits_out>>

\* Clock::subscribe_bounded(capacity)
SubscribeBounded(capacity, policy) ==
    /\ phase = "Running"
    /\ Len(subscribers) < MaxSubscribers
    /\ subscribers' = Append(subscribers, NewSubscriber(policy, capacity, steps))
    /\ UNCHANGED <<registration, page>>
    /\ UNCHANGED <<builder, phase, build_result, clock, outcome, steps,
                   snap, snapshot_out, pulse_bits_out>>

\* Receiver::recv() on the receiving end of subscriber i
Recv(i) ==
    /\ i \in 1..Len(subscribers)
    /\ subscribers[i].queue # <<>>
    /\ subscribers' =
          [subscribers EXCEPT ![i] =
              [@ EXCEPT !.received = Append(@, Head(subscribers[i].queue)),
                        !.queue = Tail(@)]]
    /\ UNCHANGED <<registration, page>>
    /\ UNCHANGED <<builder, phase, build_result, clock, outcome, steps,
                   snap, snapshot_out, pulse_bits_out>>

ObservedTick == steps < MaxObservedSteps /\ TickCall

ObservedBuilders ==
    { [partitions |-> <<PartitionSpec("sec", 2), PartitionSpec("min", 3)>>,
       pulses |-> <<[name |-> "p", condition |-> Every(2)],
                    [name |-> "q", condition |-> PartitionEquals("sec", 1)]>>,
       order |-> LSF],
      [partitions |-> <<>>, pulses |-> <<>>, order |-> NoOrder] }

InitSubscribers ==
    /\ builder \in ObservedBuilders
    /\ build(builder).kind = "Ok"
    /\ phase = "Running"
    /\ build_result = build(builder)
    /\ clock = NewClock(builder)
    /\ outcome = NoOutcome
    /\ steps = 0
    /\ HostInit

NextSubscribers ==
    \/ Subscribe
    \/ \E capacity \in CapacityMenu, policy \in DropPolicyMenu :
            SubscribeBounded(capacity, policy)
    \/ \E i \in 1..MaxSubscribers : Recv(i)
    \/ ObservedTick

SpecSubscribers == InitSubscribers /\ [][NextSubscribers]_vars

----------------------------------------------------------------------------
(* A host polling a clock through the raw buffers, from a fresh clock and  *)
(* from a clock two steps short of the wrap of epoch.                      *)

MaxRawSteps == 3

RawBuilders ==
    { [partitions |-> <<PartitionSpec("sec", 2), PartitionSpec("min", U64Max)>>,
       pulses |-> <<[name |-> "p", condition |-> Every(2)],
                    [name |-> "q", condition |-> PartitionEquals("sec", 0)]>>,
       order |-> o] : o \in OrderMenu }
    \cup {[partitions |-> <<>>, pulses |-> <<>>, order |-> NoOrder]}

RawStarts == {0, U64Mod * U64Mod - 2}

InRawWindow(n) == \E start \in RawStarts : start <= n /\ n < start + MaxRawSteps

InitRaw ==
    /\ builder \in RawBuilders
    /\ build(builder).kind = "Ok"
    /\ phase = "Running"
    /\ build_result = build(builder)
    /\ steps \in RawStarts
    /\ clock = Run(NewClock(builder), steps)
    /\ outcome = IF steps = 0 THEN NoOutcome ELSE OutcomeAt(builder, steps)
    /\ HostInit

RawTick == InRawWindow(steps) /\ TickRawCall
RichTick == InRawWindow(steps) /\ TickCall
SnapshotRaw == \E overflowed \in BOOLEAN : SnapshotRawCall(overflowed)

NextRaw == RawTick \/ RichTick \/ SnapshotRaw

SpecRaw == InitRaw /\ [][NextRaw]_vars

----------------------------------------------------------------------------
(* A page that configures its clock from condition literals: every form of *)
(* the documentation, trees of them, and literals that are not conditions. *)

\* <<pulse name, literal, the condition built natively>>
ConditionForms ==
    { <<"every", [type |-> "every", period |-> 2], Every(2)>>,
      <<"equals", [type |-> "partition_equals", name |-> "sec", value |-> 1],
        PartitionEquals("sec", 1)>>,
      <<"modulo", [type |-> "partition_modulo", name |-> "min",
                   modulus |-> 2, remainder |-> 0],
        PartitionModulo("min", 2, 0)>>,
      <<"range", [type |-> "tick_range", start |-> 1, end |-> 2],
        TickRange(1, 2)>>,
      <<"not", [type |-> "not",
                condition |-> [type |-> "every", period |-> 2]],
        Not(Every(2))>>,
      <<"and", [type |-> "and", conditions |->
                  << [type |-> "partition_equals", name |-> "sec", value |-> 0],
                     [type |-> "partition_equals", name |-> "min", value |-> 0] >>],
        And(<<PartitionEquals("sec", 0), PartitionEquals("min", 0)>>)>>,
      <<"or", [type |-> "or", conditions |->
                 << [type |-> "every", period |-> 3],
                    [type |-> "not", condition |->
                        [type |-> "and", conditions |->
                           << [type |-> "partition_equals", name |-> "sec",
                               value |-> 1] >>]] >>],
        Or(<<Every(3), Not(And(<<PartitionEquals("sec", 1)>>))>>)>> }

\* <<pulse name, a literal that is no condition>>
MalformedLiterals ==
    { <<"bad", [type |-> "sometimes", period |-> 2]>>,
      <<"bad", [period |-> 2]>>,
      <<"bad", [type |-> "every"]>>,
      <<"bad", [type |-> "every", period |-> 0 - 1]>>,
      <<"bad", [type |-> "partition_equals", name |-> "sec"]>>,
      <<"bad", [type |-> "not"]>>,
      <<"bad", [type |-> "and"]>>,
      <<"deep", [type |-> "and", conditions |->
                   << [type |-> "every", period |-> 2],
                      [type |-> "sometimes"] >>]>>,
      <<"deep", [type |-> "not", condition |->
                   [type |-> "or", conditions |->
                      << [type |-> "partition_equals", name |-> "sec"] >>]]>> }

InitBridge ==
    /\ builder = [NewBuilder EXCEPT
                     !.partitions =
                         <<PartitionSpec("sec", 2), PartitionSpec("min", 3)>>,
                     !.order = LSF]
    /\ phase = "Unbuilt"
    /\ build_result = NotBuilt
    /\ clock = NoClock
    /\ outcome = NoOutcome
    /\ steps = 0
    /\ HostInit

BridgeTick == steps < LifecycleSteps /\ TickCall

NextBridge ==
    \/ \E f \in ConditionForms : PulseCondition(f[1], f[2])
    \/ \E m \in MalformedLiterals : PulseCondition(m[1], m[2])
    \/ Build
    \/ BridgeTick

SpecBridge == InitBridge /\ [][NextBridge]_vars

----------------------------------------------------------------------------
(* The wall clock of the documentation, sec -> min -> hour with a pulse at *)
(* noon, ticked from midnight until just past noon.                        *)

NoonBuilder ==
    [partitions |-> <<PartitionSpec("sec", 60), PartitionSpec("min", 60),
                      PartitionSpec("hour", 24)>>,
     pulses |-> <<[name |-> "noon",
                   condition |-> And(<<PartitionEquals("hour", 12),
                                       PartitionEquals("min", 0),
                                       PartitionEquals("sec", 0)>>)]>>,
     order |-> LSF]

\* The ticks from midnight to noon.
NoonSteps == 12 * 3600

InitNoon ==
    /\ builder = NoonBuilder
    /\ build(builder).kind = "Ok"
    /\ phase = "Running"
    /\ build_result = build(builder)
    /\ clock = NewClock(builder)
    /\ outcome = NoOutcome
    /\ steps = 0
    /\ HostInit

NoonTick == steps <= NoonSteps /\ TickCall

NextNoon == NoonTick

SpecNoon == InitNoon /\ [][NextNoon]_vars

----------------------------------------------------------------------------
(* The page's frame loop: start(), stop(), and the browser running the     *)
(* frame callback at one timestamp after another.  The timestamps are not  *)
(* ordered: the first frame of a loop can carry a timestamp that is        *)
(* earlier than the performance.now() that start() has read.  A callback   *)
(* runs to its end before the next call.                                   *)

\* Mutant: start() without its test of running.
StartCallUnguarded(arg, now) ==
    /\ raf.next <= MaxFrames
    /\ IF StartThrows(arg)
       THEN /\ call' = [op |-> "start", arg |-> arg, threw |-> TRUE]
            /\ UNCHANGED <<engine, raf>>
       ELSE /\ call' = [op |-> "start", arg |-> arg, threw |-> FALSE]
            /\ engine' = [engine EXCEPT !.tickRateMs = arg.value,
                                        !.tickCount = 0,
                                        !.accumulator = 0,
                                        !.running = TRUE,
                                        !.lastFrameTime = now,
                                        !.rafId = <<raf.next>>]
            /\ raf' = Requested(raf)

\* Engine.start(tickRateMs), called when performance.now() is now.
StartCall(arg, now) ==
    /\ raf.next <= MaxFrames
    /\ IF engine.running
       THEN /\ call' = [op |-> "start", arg |-> arg, threw |-> FALSE]
            /\ UNCHANGED <<engine, raf>>
       ELSE IF StartThrows(arg)
       THEN /\ call' = [op |-> "start", arg |-> arg, threw |-> TRUE]
            /\ UNCHANGED <<engine, raf>>
       ELSE /\ call' = [op |-> "start", arg |-> arg, threw |-> FALSE]
            /\ engine' = [engine EXCEPT !.tickRateMs = arg.value,
                                        !.tickCount = 0,
                                        !.accumulator = 0,
                                        !.running = TRUE,
                                        !.lastFrameTime = now,
                                        !.rafId = <<raf.next>>]
            /\ raf' = Requested(raf)

\* Engine.stop()
StopCall ==
    /\ call' = [op |-> "stop"]
    /\ engine' = [engine EXCEPT !.running = FALSE, !.rafId = <<>>]
    /\ raf' = IF engine.rafId # <<>> THEN Cancelled(raf, engine.rafId[1])
              ELSE raf

\* The browser runs a requested frame callback at timestamp now.
FrameCall(now) ==
    /\ raf.next <= MaxFrames
    /\ \E id \in raf.pending :
          LET after == frame(engine, now, raf.next)
              left == [raf EXCEPT !.pending = @ \ {id}]
          IN  /\ engine' = after
              /\ raf' = IF after.rafId = <<raf.next>> THEN Requested(left)
                        ELSE left
    /\ UNCHANGED call

\* A callback whose request stop() has cancelled runs all the same, while
\* the engine is stopped.
LateFrameCall(now) ==
    /\ raf.next <= MaxFrames
    /\ ~engine.running
    /\ \E id \in raf.cancelled :
          LET after == frame(engine, now, raf.next)
              left == [raf EXCEPT !.cancelled = @ \ {id}]
          IN  /\ engine' = after
              /\ raf' = IF after.rafId = <<raf.next>> THEN Requested(left)
                        ELSE left
    /\ UNCHANGED call

\* The engine alone: the kernel, the history and the widgets stay as they are.
Start(arg, now) == StartCall(arg, now) /\ UNCHANGED <<kernel, run, widgets>>

Stop == StopCall /\ UNCHANGED <<kernel, run, widgets>>

Frame(now) == FrameCall(now) /\ UNCHANGED <<kernel, run, widgets>>

LateFrame(now) == LateFrameCall(now) /\ UNCHANGED <<kernel, run, widgets>>

\* The arguments that callers pass to start().
TickRateMenu ==
    { Number(2), Number(3), Number(0), Number(0 - 1), NaN, PosInfinity,
      NegInfinity, NotNumber }

\* performance.now() and the timestamps of frames, in milliseconds.
TimeMenu == {0, 1, 2, 4, MaxTime}

NextEngine ==
    \/ \E arg \in TickRateMenu, now \in TimeMenu : Start(arg, now)
    \/ Stop
    \/ \E now \in TimeMenu : Frame(now)
    \/ \E now \in TimeMenu : LateFrame(now)

SpecEngine == Init /\ [][NextEngine]_vars

----------------------------------------------------------------------------
(* The frame loop with the history of its run: when the run has started,   *)
(* whether a frame has stopped at the cap, whether a timestamp went back.  *)

TimedStart(arg, now) ==
    /\ StartCall(arg, now)
    /\ run' = IF engine.running \/ StartThrows(arg) THEN run
              ELSE RunStarted(now)
    /\ UNCHANGED <<kernel, widgets>>

TimedStop == StopCall /\ UNCHANGED <<kernel, run, widgets>>

TimedFrame(now) ==
    /\ FrameCall(now)
    /\ run' = RunAfterFrame(run, engine, now)
    /\ UNCHANGED <<kernel, widgets>>

\* The tick rates of the timed runs.
TimedRateMenu == {Number(2), Number(3)}

NextTimed ==
    \/ \E arg \in TimedRateMenu, now \in TimeMenu : TimedStart(arg, now)
    \/ TimedStop
    \/ \E now \in TimeMenu : TimedFrame(now)

SpecTimed == Init /\ [][NextTimed]_vars

----------------------------------------------------------------------------
(* ClockService: the page's service that builds the sec/min/hour clock,    *)
(* starts the engine at one tick per second and advances the clock from an *)
(* effect on the engine's tick signal.  The effect runs after a frame      *)
(* callback that has changed the signal, before the next callback.         *)

\* start(): the builder calls of the service.
ServiceBuilder ==
    [partitions |-> <<PartitionSpec("sec", 60), PartitionSpec("min", 60),
                      PartitionSpec("hour", 24)>>,
     pulses |-> <<>>,
     order |-> LSF]

\* ClockService.start(), called when performance.now() is now.
ServiceStart(now) ==
    /\ builder' = ServiceBuilder
    /\ build_result' = build(ServiceBuilder)
    /\ phase' = "Running"
    /\ clock' = NewClock(ServiceBuilder)
    /\ outcome' = NoOutcome
    /\ steps' = 0
    /\ snap' = <<snapshot(NewClock(ServiceBuilder))>>
    /\ StartCall(Number(DefaultTickRateMs), now)
    /\ UNCHANGED <<subscribers, snapshot_out, pulse_bits_out, registration,
                   run, widgets>>

\* ClockService.stop()
ServiceStop == StopCall /\ UNCHANGED <<kernel, run, widgets>>

\* A frame callback of the engine, then the effect of the service: it runs
\* if the callback has changed the tick signal, and calls clock.tick()
\* once if there is a clock and the signal is above 0.
ServiceFrame(now) ==
    /\ FrameCall(now)
    /\ LET c == Advanced(clock)
       IN  IF phase = "Running" /\ engine'.tick # engine.tick
                                /\ engine'.tick > 0
           THEN /\ clock' = c
                /\ outcome' = TickOutcome(c, TickOverflowed(clock.tick))
                /\ steps' = steps + 1
                /\ snap' = <<snapshot(c)>>
           ELSE UNCHANGED <<clock, outcome, steps, snap>>
    /\ UNCHANGED <<builder, phase, build_result, subscribers, snapshot_out,
                   pulse_bits_out, registration, run, widgets>>

\* performance.now() and the frame timestamps of the service, milliseconds.
ServiceTimeMenu == {0, 400, 1000, 2400, 7000}

NextService ==
    \/ \E now \in ServiceTimeMenu : ServiceStart(now)
    \/ ServiceStop
    \/ \E now \in ServiceTimeMenu : ServiceFrame(now)

SpecService == Init /\ [][NextService]_vars

----------------------------------------------------------------------------
(* A loader and its callers: construction, start, stop, reset, and renders *)
(* whose clock state carries any tick, repeated and out of order included. *)

Idle == UNCHANGED <<kernel, engine, raf, call, run>>

\* createAnimatedLoader(config)
Construct(durationTicks, loop) ==
    /\ loader' = NewLoader(durationTicks, loop)
    /\ UNCHANGED <<conway, app>>
    /\ Idle

\* loader.start(currentTick)
LoaderStart(currentTick) ==
    /\ loader.constructed
    /\ loader' = [loader EXCEPT !.state = LoaderStarted(currentTick),
                                !.op = [name |-> "start"]]
    /\ UNCHANGED <<conway, app>>
    /\ Idle

\* loader.stop()
LoaderStop ==
    /\ loader.constructed
    /\ loader' = [loader EXCEPT !.state.running = FALSE,
                                !.op = [name |-> "stop"]]
    /\ UNCHANGED <<conway, app>>
    /\ Idle

\* loader.reset()
LoaderResetCall ==
    /\ loader.constructed
    /\ loader' = [loader EXCEPT !.state = LoaderReset,
                                !.op = [name |-> "reset"]]
    /\ UNCHANGED <<conway, app>>
    /\ Idle

\* loader.render(r, clockState, t) with clockState.tick = tick
LoaderRenderCall(tick) ==
    /\ loader.constructed
    /\ loader.onComplete < MaxCompletions
    /\ loader' = [LoaderRender(loader, tick) EXCEPT
                     !.op = [name |-> "render", tick |-> tick]]
    /\ UNCHANGED <<conway, app>>
    /\ Idle

\* The durations that a config gives.
DurationMenu == {0, 2, 3}

NextLoader ==
    \/ \E d \in DurationMenu, loop \in BOOLEAN : Construct(d, loop)
    \/ \E tick \in 0..MaxLoaderTick : LoaderStart(tick)
    \/ LoaderStop
    \/ LoaderResetCall
    \/ \E tick \in 0..MaxLoaderTick : LoaderRenderCall(tick)

SpecLoader == Init /\ [][NextLoader]_vars

----------------------------------------------------------------------------
(* The Conway skin and its callers: renders whose clock state carries the  *)
(* engine's tick signal, which moves by up to MAX_TICKS_PER_FRAME between  *)
(* two renders, and resetConway().                                         *)

\* ConwaySkin.render(r, clockState, t) with clockState.tick = tick
ConwayRenderCall(tick, stagnant) ==
    /\ conway.initialized =>
          /\ tick >= conway.lastTick
          /\ tick - conway.lastTick <= MAX_TICKS_PER_FRAME
    /\ conway' = ConwayRender(conway, tick, stagnant)
    /\ UNCHANGED <<loader, app>>
    /\ Idle

\* resetConway()
ConwayResetCall ==
    /\ conway' = [conway EXCEPT !.initialized = FALSE, !.generation = 0]
    /\ UNCHANGED <<loader, app>>
    /\ Idle

NextConway ==
    \/ \E tick \in 0..MaxConwayTick, stagnant \in BOOLEAN :
          ConwayRenderCall(tick, stagnant)
    \/ ConwayResetCall

SpecConway == Init /\ [][NextConway]_vars

----------------------------------------------------------------------------
(* An app made by createApp and the calls of its owner, in any order.      *)

\* No scene of the app has received more than MaxCalls callbacks.
WithinCalls(a) == \A s \in Scenes : Len(a.received[s]) <= MaxCalls

AppStart ==
    /\ WithinCalls(AppStarted(app))
    /\ app' = AppStarted(app)
    /\ UNCHANGED <<loader, conway>>
    /\ Idle

AppStop ==
    /\ WithinCalls(AppStopped(app))
    /\ app' = AppStopped(app)
    /\ UNCHANGED <<loader, conway>>
    /\ Idle

SetScene(newScene) ==
    /\ WithinCalls(SceneSet(app, newScene))
    /\ app' = SceneSet(app, newScene)
    /\ UNCHANGED <<loader, conway>>
    /\ Idle

NextApp ==
    \/ AppStart
    \/ AppStop
    \/ \E s \in Scenes : SetScene(s)

SpecApp == Init /\ [][NextApp]_vars

----------------------------------------------------------------------------
(* A configuration whose pulses take any name a caller can write, the name *)
(* of the overflow pulse included.                                         *)

\* pulse_when(name, condition)
AnyNamePulseMenu ==
    { <<OverflowName, Every(1)>>,
      <<OverflowName, Not(Every(2))>>,
      <<"p", Every(2)>> }

AnyNameTick == steps < LifecycleSteps /\ TickCall

NextAnyName ==
    \/ \E order \in OrderMenu : SetPartitionOrder(order)
    \/ \E pm \in LifecyclePartitionMenu : AddPartition(pm[1], pm[2])
    \/ \E pw \in AnyNamePulseMenu : PulseWhen(pw[1], pw[2])
    \/ Build
    \/ AnyNameTick

SpecAnyName == Init /\ [][NextAnyName]_vars

----------------------------------------------------------------------------
(* Properties of tick() *)

Running == phase = "Running"
Ticked == phase = "Running" /\ steps > 0

\* A step of the specification that is a call of tick().
TickStep == steps' = steps + 1

FiredNames(o) == {o.pulses[i].name : i \in 1..Len(o.pulses)}

HasCondition(c, type) == \E i \in 1..Len(c.pulses) : c.pulses[i].condition.type = type

\* C1: once build() has succeeded, every tick() completes and returns a
\* TickOutcome (the snapshot of the clock it has just advanced); no tick()
\* aborts, also when tick or epoch is at its maximum value.
C1_TickInfallible ==
    /\ phase # "Aborted"
    /\ Ticked => /\ outcome.snapshot = snapshot(clock)
                 /\ outcome.overflowed \in BOOLEAN

\* C1 witness: a clock with two pulses, one of them periodic, has been ticked
\* through tick = max and epoch = max.
C1_Witness ==
    /\ Ticked
    /\ steps = U64Mod * U64Mod
    /\ clock.tick = 0 /\ clock.epoch = 0
    /\ Len(clock.pulses) = 2
    /\ HasCondition(clock, "Every")

\* C2: every partition of a running clock satisfies 0 <= value < modulus.
C2_PartitionInRange ==
    Running =>
        \A i \in 1..Len(clock.partitions) :
            /\ 0 <= clock.partitions[i].value
            /\ clock.partitions[i].value < clock.partitions[i].modulus

\* C2 witness: both partitions of a two-partition clock have wrapped and
\* the clock has moved on.
C2_Witness ==
    /\ Ticked
    /\ Len(clock.partitions) = 2
    /\ steps > clock.partitions[1].modulus * clock.partitions[2].modulus
    /\ \E i \in 1..2 : clock.partitions[i].value = clock.partitions[i].modulus - 1

\* C3: a fresh clock ticked n times has tick_count() = n mod 2^64; each
\* tick() takes tick from v to v + 1 with wraparound and no other operation
\* changes it.
C3_TickCount ==
    /\ [](Running => clock.tick = steps % U64Mod)
    /\ [][ /\ TickStep => clock'.tick = (clock.tick + 1) % U64Mod
           /\ ~TickStep => clock'.tick = clock.tick ]_vars

\* C3 witness: the tick counter has wrapped and counted on.
C3_Witness == Ticked /\ steps > U64Mod /\ clock.tick = 1

\* C4: a tick() taken at tick = max sets tick to 0, increments epoch (with
\* wraparound), returns overflowed = true and emits the __overflow__ pulse;
\* every other tick() leaves epoch alone and returns overflowed = false.
C4_Overflow ==
    [][ (TickStep /\ phase' = "Running") =>
            IF clock.tick = U64Max
            THEN /\ clock'.tick = 0
                 /\ clock'.epoch = (clock.epoch + 1) % U64Mod
                 /\ outcome'.overflowed = TRUE
                 /\ OverflowName \in FiredNames(outcome')
            ELSE /\ clock'.epoch = clock.epoch
                 /\ outcome'.overflowed = FALSE ]_vars

\* C4 witness: the step that wrapped tick while epoch was at its maximum.
C4_Witness ==
    /\ Ticked
    /\ steps = U64Mod * U64Mod
    /\ clock.epoch = 0
    /\ outcome.overflowed
    /\ OverflowName \in FiredNames(outcome)

\* C9: a pulse with condition Every(n) fires on exactly the steps whose
\* resulting tick is a nonzero multiple of n, never on a step that yields
\* tick 0.
C9_EveryFires ==
    Ticked =>
        \A i \in 1..Len(clock.pulses) :
            LET pulse == clock.pulses[i]
            IN  pulse.condition.type = "Every" =>
                    /\ pulse.condition.period > 0
                    /\ pulse.name \in FiredNames(outcome) <=>
                         /\ outcome.snapshot.tick # 0
                         /\ outcome.snapshot.tick % pulse.condition.period = 0

\* C9 witness: after the tick counter has wrapped, a step yields tick 2:
\* Every(2) fires and Every(3) does not.
C9_Witness ==
    /\ Ticked
    /\ clock.epoch = 1 /\ clock.tick = 2
    /\ clock.pulses = <<[name |-> "p", condition |-> Every(2)],
                        [name |-> "q", condition |-> Every(3)]>>
    /\ FiredNames(outcome) = {"p"}

\* C10: And([]) and Or([]) evaluate to false at every tick and snapshot, and
\* a pulse whose condition is an empty And or an empty Or never fires.
C10_EmptyAndOrFalse ==
    Running =>
        /\ is_met(And(<<>>), clock.tick, snapshot(clock)) = "false"
        /\ is_met(Or(<<>>), clock.tick, snapshot(clock)) = "false"
        /\ \A i \in 1..Len(clock.pulses) :
              clock.pulses[i].condition \in {And(<<>>), Or(<<>>)} =>
                  clock.pulses[i].name \notin FiredNames(outcome)

\* C10 witness: a clock whose two pulses are an empty And and an empty Or has
\* been ticked through a tick overflow and neither has fired.
C10_Witness ==
    /\ Ticked
    /\ steps > U64Mod
    /\ clock.pulses = <<[name |-> "q", condition |-> And(<<>>)],
                        [name |-> "p", condition |-> Or(<<>>)]>>
    /\ outcome.pulses = <<>>

\* C11: TickRange(start, end) is true exactly when start <= tick <= end, both
\* end points included: a pulse with this condition fires on the step that
\* yields tick = start, on the step that yields tick = end, on every step
\* between, and on no other step.
C11_TickRangeInclusive ==
    Ticked =>
        LET t == clock.tick
            Met(s, e) == is_met(TickRange(s, e), t, snapshot(clock)) = "true"
        IN  /\ \A i \in 1..Len(clock.pulses) :
                  LET pulse == clock.pulses[i]
                  IN  pulse.condition.type = "TickRange" =>
                         (pulse.name \in FiredNames(outcome) <=>
                             /\ pulse.condition.start <= outcome.snapshot.tick
                             /\ outcome.snapshot.tick <= pulse.condition.end)
            /\ Met(t, t) /\ Met(0, t) /\ Met(t, U64Max) /\ Met(0, U64Max)
            /\ t < U64Max => ~Met(t + 1, U64Max)
            /\ t > 0 => ~Met(0, t - 1)

\* C11 witness: in the second epoch the step that yields tick = end fires the
\* TickRange(1, 2) pulse.
C11_Witness ==
    /\ Ticked
    /\ clock.epoch = 1 /\ clock.tick = 2
    /\ \E i \in 1..Len(clock.pulses) :
          /\ clock.pulses[i].condition = TickRange(1, 2)
          /\ clock.pulses[i].name \in FiredNames(outcome)

AbsentNameMenu == {"sec", "min", "hour"}

\* C12: PartitionEquals(name, value) evaluated against a snapshot that has no
\* partition called name is false, and the evaluation raises no error.
C12_AbsentPartitionFalse ==
    Running =>
        \A name \in AbsentNameMenu \ PartitionNames(clock.partitions) :
            \A value \in {0, 1} :
                is_met(PartitionEquals(name, value), clock.tick, snapshot(clock))
                    = "false"

\* C12 witness: a clock whose only partition is sec has sec = 1; the
\* condition on sec is met and the same condition on min is not.
C12_Witness ==
    /\ Ticked
    /\ PartitionNames(clock.partitions) = {"sec"}
    /\ is_met(PartitionEquals("sec", 1), clock.tick, snapshot(clock)) = "true"
    /\ is_met(PartitionEquals("min", 1), clock.tick, snapshot(clock)) = "false"

\* C13: within one TickOutcome the fired user pulses appear in registration
\* order (a subsequence of it), and the overflow pulse, when present, is the
\* last element.
C13_PulseOrder ==
    Ticked =>
        LET fired == outcome.pulses
            n == Len(fired)
            m == IF outcome.overflowed THEN n - 1 ELSE n
            Pos(k) == CHOOSE i \in 1..Len(clock.pulses) :
                          clock.pulses[i].name = fired[k].name
        IN  /\ outcome.overflowed => n >= 1 /\ fired[n].name = OverflowName
            /\ \A k \in 1..m :
                  \E i \in 1..Len(clock.pulses) :
                      clock.pulses[i].name = fired[k].name
            /\ \A k, l \in 1..m : k < l => Pos(k) < Pos(l)

\* C13 witness: the step that wrapped tick fired both user pulses, q
\* registered before p, and the outcome lists q, p, __overflow__.
C13_Witness ==
    /\ Ticked
    /\ outcome.overflowed
    /\ Len(clock.pulses) = 2 /\ clock.pulses[1].name = "q"
    /\ Len(outcome.pulses) = 3
    /\ outcome.pulses[1].name = "q"
    /\ outcome.pulses[2].name = "p"
    /\ outcome.pulses[3].name = OverflowName

\* (epoch, tick) pairs in lexicographic order.
PairLess(a, b) == a.epoch < b.epoch \/ (a.epoch = b.epoch /\ a.tick < b.tick)

\* A call of tick() that follows an earlier one and returns an outcome.
LaterTickStep == TickStep /\ Ticked /\ phase' = "Running"

\* C14 as stated: the (epoch, tick) pair of the outcome of each tick() is
\* strictly greater than the pair of every earlier outcome of the clock.
C14_StrictlyIncreasing ==
    [][ LaterTickStep => PairLess(outcome.snapshot, outcome'.snapshot) ]_vars

\* C14 amended: the pair of each outcome is strictly greater than the pair of
\* the previous one, except for the tick() taken at tick = max and
\* epoch = max, which yields the pair (0, 0); the first 2^128 - 1 outcomes
\* of a clock carry the pairs (0, 1), (0, 2), .. in increasing order.
C14_OrderedUntilEpochWrap ==
    /\ [][ LaterTickStep =>
             IF clock.tick = U64Max /\ clock.epoch = U64Max
             THEN outcome'.snapshot.tick = 0 /\ outcome'.snapshot.epoch = 0
             ELSE PairLess(outcome.snapshot, outcome'.snapshot) ]_vars
    /\ []((Ticked /\ steps < U64Mod * U64Mod) =>
             outcome.snapshot.epoch * U64Mod + outcome.snapshot.tick = steps)

\* C14 witness: the last outcome before the pair wraps, the greatest pair.
C14_Witness ==
    /\ Ticked
    /\ steps = U64Mod * U64Mod - 1
    /\ outcome.snapshot.epoch = U64Max /\ outcome.snapshot.tick = U64Max

\* What build() froze: partition names and moduli in order, the order
\* setting, and the pulses (names and conditions).
Shape(c) ==
    [partitions |-> [i \in 1..Len(c.partitions) |->
                        <<c.partitions[i].name, c.partitions[i].modulus>>],
     partition_order |-> c.partition_order,
     pulses |-> c.pulses]

\* C15: after build() has succeeded, no tick() or snapshot() call changes
\* the partition names, their order, their moduli, the partition order
\* setting or the pulses, and the clock stays Running: it never returns to
\* a state where configuration can be added or build() can fail.
C15_ShapeFrozen ==
    /\ [][ phase = "Running" =>
             /\ phase' = "Running"
             /\ Shape(clock') = Shape(clock)
             /\ builder' = builder
             /\ build_result' = build_result ]_vars
    /\ [](phase = "Running" =>
             /\ build_result.kind = "Ok"
             /\ Shape(clock) = Shape(NewClock(builder))
             /\ \A i \in 1..Len(snap) :
                    [j \in 1..Len(snap[i].partitions) |-> snap[i].partitions[j].name]
                      = [j \in 1..Len(builder.partitions) |-> builder.partitions[j].name])

\* C15 witness: a clock of two partitions and two pulses has been ticked
\* past a wrap of tick, with a snapshot() call on the way.
C15_Witness ==
    /\ Ticked
    /\ steps > U64Mod
    /\ Len(snap) = 1 /\ snap[1].tick > 0
    /\ Len(clock.partitions) = 2 /\ Len(clock.pulses) = 2

\* C16: snapshot() reads without advancing: it changes neither tick, epoch
\* nor any partition value and returns the current state, so the outcomes
\* of tick() are those of a run without snapshot() calls.
C16_SnapshotReadsOnly ==
    /\ [][ snap' # snap =>
             /\ clock' = clock /\ outcome' = outcome /\ steps' = steps
             /\ snap' = <<snapshot(clock)>> ]_vars
    /\ [](Ticked => outcome = OutcomeAt(builder, steps))

\* C16 witness: a snapshot() call was made between two tick() calls.
C16_Witness ==
    /\ Ticked
    /\ Len(snap) = 1
    /\ snap[1].tick = 1 /\ snap[1].epoch = 0
    /\ steps = 3
    /\ Len(clock.partitions) = 2
    /\ outcome = OutcomeAt(builder, 3)

----------------------------------------------------------------------------
(* Properties of the subscriber channel *)

\* The outcomes of steps from + 1 .. to of the clock b builds.
OutcomesBetween(b, from, to) ==
    [k \in 1..(to - from) |-> OutcomeAt(b, from + k)]

IsBounded(sub) == sub.policy # Unbounded

\* C17: an unbounded subscriber receives a copy of every TickOutcome
\* produced after it was attached, exactly once each and in the order of
\* the steps: what it has taken out followed by what is still queued is the
\* list of those outcomes, with none dropped.
C17_UnboundedReceivesAll ==
    Running =>
        \A i \in 1..Len(subscribers) :
            LET sub == subscribers[i]
            IN  ~IsBounded(sub) =>
                    sub.received \o sub.queue =
                        OutcomesBetween(builder, sub.attached, steps)

\* C17 witness: an unbounded subscriber attached after the first step sits
\* next to a bounded one that is full; it has taken one outcome out and one
\* is still queued.
C17_Witness ==
    /\ steps = 3
    /\ Len(subscribers) = 2
    /\ IsBounded(subscribers[1])
    /\ Len(subscribers[1].queue) = subscribers[1].capacity
    /\ ~IsBounded(subscribers[2])
    /\ subscribers[2].attached = 1
    /\ Len(subscribers[2].received) = 1
    /\ Len(subscribers[2].queue) = 1
    /\ Len(clock.pulses) = 2

\* Every subscriber is bounded, has never been drained and is full.
AllQueuesFull ==
    /\ Len(subscribers) >= 1
    /\ \A i \in 1..Len(subscribers) :
          /\ IsBounded(subscribers[i])
          /\ subscribers[i].received = <<>>
          /\ Len(subscribers[i].queue) = subscribers[i].capacity

\* C18: a bounded subscriber of capacity n never holds more than n
\* undelivered outcomes; a tick() that finds its queue full drops one event
\* for it (the new one or the oldest one), and tick() is never blocked by a
\* full queue and returns its outcome.
C18_BoundedNeverExceeds ==
    /\ [](\A i \in 1..Len(subscribers) :
             IsBounded(subscribers[i]) =>
                 Len(subscribers[i].queue) <= subscribers[i].capacity)
    /\ []((Running /\ AllQueuesFull) => ENABLED TickCall)
    /\ [][ TickStep =>
             /\ outcome' = OutcomeAt(builder, steps')
             /\ \A i \in 1..Len(subscribers) :
                    LET sub == subscribers[i]
                        q == subscribers'[i].queue
                    IN  IsBounded(sub) =>
                            IF Len(sub.queue) < sub.capacity
                            THEN q = Append(sub.queue, outcome')
                            ELSE \/ q = sub.queue
                                 \/ q = Append(Tail(sub.queue), outcome') ]_vars

\* C18 witness: a bounded subscriber of capacity 2 that was attached before
\* the first step and never drained holds two outcomes after three steps,
\* the oldest one dropped.
C18_Witness ==
    /\ steps = 3
    /\ Len(subscribers) >= 1
    /\ subscribers[1].policy = DropOldest
    /\ subscribers[1].capacity = 2
    /\ subscribers[1].attached = 0
    /\ subscribers[1].received = <<>>
    /\ subscribers[1].queue = OutcomesBetween(builder, 1, 3)
    /\ Len(clock.pulses) = 2

----------------------------------------------------------------------------
(* Properties of the raw-buffer path *)

\* The value of the (lo, hi) pair of words at positions i, i + 1.
Word64(buf, i) == buf[i] + buf[i + 1] * U32Mod

\* Bit j (from 0) of a bitset of words.
Bit(words, j) == (words[(j \div U32Bits) + 1] \div (2 ^ (j % U32Bits))) % 2 = 1

\* A call of tick_raw: a step that returns no outcome.
RawTickStep == steps' = steps + 1 /\ outcome' = outcome

C20_RawLayout ==
    [][ snapshot_out' # snapshot_out =>
          LET out == snapshot_out'
              c == clock'
              n == Len(c.partitions)
          IN  /\ Len(out) = 6 + 2 * n
              /\ Len(out) = raw_snapshot_len(c)
              /\ \A k \in (1..Len(out)) \ {5, 6} : out[k] \in 0..(U32Mod - 1)
              /\ Word64(out, 1) = c.tick
              /\ Word64(out, 3) = c.epoch
              /\ out[5] \in {0, 1}
              /\ out[6] = n
              /\ \A i \in 1..n :
                    Word64(out, 5 + 2 * i) = c.partitions[i].value ]_vars

\* C20 witness: snapshot_raw has written the state of a two-partition clock
\* whose tick and epoch are both at the greatest value; tick_raw was never
\* called.
C20_Witness ==
    /\ Running
    /\ pulse_bits_out = <<>>
    /\ clock.tick = U64Max /\ clock.epoch = U64Max
    /\ Len(clock.partitions) = 2
    /\ Len(snapshot_out) = 10
    /\ snapshot_out[1] = U32Mod - 1 /\ snapshot_out[2] = U32Mod - 1
    /\ snapshot_out[3] = U32Mod - 1 /\ snapshot_out[4] = U32Mod - 1

----------------------------------------------------------------------------
(* Properties of the partition cascade *)

\* The product of the moduli of the partitions at the positions in S.
RECURSIVE ModuliProduct(_, _)
ModuliProduct(parts, S) ==
    IF S = {} THEN 1
    ELSE LET i == CHOOSE i \in S : TRUE
         IN  parts[i].modulus * ModuliProduct(parts, S \ {i})

\* Digit i of n in the mixed-radix system whose faster digits are at the
\* positions in Faster.
Digit(parts, i, Faster, n) ==
    (n \div ModuliProduct(parts, Faster)) % parts[i].modulus

SecMin60 == <<PartitionSpec("sec", 60), PartitionSpec("min", 60)>>

\* C5: under LeastSignificantFirst the partitions are a mixed-radix counter
\* whose fastest digit is the first registered partition: on each step
\* partition 1 increments, a later partition increments exactly when the one
\* before it wrapped to 0 on that step, and every other partition keeps its
\* value.  [sec:60, min:60] shows sec = 0, min = 1 after 60 ticks and
\* sec = 0, min = 0 after 3600 ticks.
C5_CascadeLSF ==
    /\ [][ (TickStep /\ clock.partition_order = LSF) =>
             LET p == clock.partitions
                 q == clock'.partitions
                 Visited(i) == \A j \in 1..(i - 1) : q[j].value = 0
             IN  \A i \in 1..Len(p) :
                    q[i].value = IF Visited(i)
                                 THEN (p[i].value + 1) % p[i].modulus
                                 ELSE p[i].value ]_vars
    /\ [](clock.partition_order = LSF =>
             \A i \in 1..Len(clock.partitions) :
                clock.partitions[i].value =
                    Digit(clock.partitions, i, 1..(i - 1), steps))
    /\ []((clock.partition_order = LSF /\ builder.partitions = SecMin60) =>
             /\ steps = 60 => /\ clock.partitions[1].value = 0
                              /\ clock.partitions[2].value = 1
             /\ steps = 3600 => /\ clock.partitions[1].value = 0
                                /\ clock.partitions[2].value = 0)

\* C5 witness: [sec:60, min:60], least-significant-first, after 3600 ticks.
C5_Witness ==
    /\ clock.partition_order = LSF
    /\ builder.partitions = SecMin60
    /\ steps = 3600
    /\ clock.partitions[1].value = 0 /\ clock.partitions[2].value = 0

\* C6: under MostSignificantFirst the last registered partition increments
\* on every tick, a carry moves from a partition to the one registered
\* immediately before it, and the first registered partition changes only
\* when all later partitions wrap on the same step.
C6_CascadeMSF ==
    /\ [][ (TickStep /\ clock.partition_order = MSF) =>
             LET p == clock.partitions
                 q == clock'.partitions
                 n == Len(p)
                 Visited(i) == \A j \in (i + 1)..n : q[j].value = 0
             IN  /\ \A i \in 1..n :
                       q[i].value = IF Visited(i)
                                    THEN (p[i].value + 1) % p[i].modulus
                                    ELSE p[i].value
                 /\ q[n].value = (p[n].value + 1) % p[n].modulus
                 /\ q[1].value # p[1].value =>
                       \A j \in 2..n : q[j].value = 0 ]_vars
    /\ [](clock.partition_order = MSF =>
             \A i \in 1..Len(clock.partitions) :
                clock.partitions[i].value =
                    Digit(clock.partitions, i,
                          (i + 1)..Len(clock.partitions), steps))

\* C6 witness: a three-partition most-significant-first clock on the step
\* where both later partitions wrapped and the first one changed.
C6_Witness ==
    /\ clock.partition_order = MSF
    /\ Len(clock.partitions) = 3
    /\ steps = 6
    /\ clock.partitions[1].value = 1
    /\ clock.partitions[2].value = 0 /\ clock.partitions[3].value = 0

----------------------------------------------------------------------------
(* Properties of build() *)

Built == phase # "Unbuilt"

\* The leaves of a condition tree.
RECURSIVE Leaves(_)
Leaves(c) ==
    CASE c.type = "Not" -> Leaves(c.inner)
      [] c.type \in {"And", "Or"} ->
            UNION {Leaves(c.children[i]) : i \in 1..Len(c.children)}
      [] OTHER -> {c}

\* The pairs <<pulse name, leaf of that pulse's condition>>.
PulseLeaves(b) ==
    UNION {{b.pulses[i].name} \X Leaves(b.pulses[i].condition) :
              i \in 1..Len(b.pulses)}

NamesOf(xs) == {xs[i].name : i \in 1..Len(xs)}

RuleModuliPositive(b) == \A i \in 1..Len(b.partitions) : b.partitions[i].modulus > 0
RuleUniquePartitionNames(b) == Cardinality(NamesOf(b.partitions)) = Len(b.partitions)
RuleUniquePulseNames(b) == Cardinality(NamesOf(b.pulses)) = Len(b.pulses)
RulePartitionsExist(b) ==
    \A pl \in PulseLeaves(b) :
        pl[2].type \in {"PartitionEquals", "PartitionModulo"} =>
            pl[2].name \in NamesOf(b.partitions)
RuleTickRanges(b) ==
    \A pl \in PulseLeaves(b) : pl[2].type = "TickRange" => pl[2].start <= pl[2].end
RuleDivisorsNonzero(b) ==
    \A pl \in PulseLeaves(b) :
        /\ pl[2].type = "Every" => pl[2].period # 0
        /\ pl[2].type = "PartitionModulo" => pl[2].modulus # 0
RuleOrderSelected(b) == Len(b.partitions) > 0 => b.order # NoOrder

RuleConditionsValid(b) ==
    RulePartitionsExist(b) /\ RuleTickRanges(b) /\ RuleDivisorsNonzero(b)

\* The rules that the success condition of build() is stated with.
ListedRules(b) ==
    /\ RuleModuliPositive(b)
    /\ RuleUniquePartitionNames(b)
    /\ RuleUniquePulseNames(b)
    /\ RuleConditionsValid(b)

\* The error names a rule that the configuration violates, and the
\* partition or pulse that violates it.
ErrorMatchesViolation(e, b) ==
    CASE e.kind = "DuplicatePartitionName" -> ~RuleUniquePartitionNames(b)
      [] e.kind = "ZeroModulus" ->
            \E i \in 1..Len(b.partitions) :
                b.partitions[i].name = e.name /\ b.partitions[i].modulus = 0
      [] e.kind = "MissingPartitionOrder" -> ~RuleOrderSelected(b)
      [] e.kind = "ZeroPeriod" ->
            \E pl \in PulseLeaves(b) :
                pl[1] = e.name /\ pl[2].type = "Every" /\ pl[2].period = 0
      [] e.kind = "UnknownPartition" ->
            \E pl \in PulseLeaves(b) :
                /\ pl[1] = e.pulse
                /\ pl[2].type \in {"PartitionEquals", "PartitionModulo"}
                /\ pl[2].name = e.partition
                /\ e.partition \notin NamesOf(b.partitions)
      [] e.kind = "ZeroConditionModulus" ->
            \E pl \in PulseLeaves(b) :
                /\ pl[1] = e.pulse
                /\ pl[2].type = "PartitionModulo"
                /\ pl[2].name = e.partition
                /\ pl[2].modulus = 0
      [] e.kind = "InvalidTickRange" ->
            \E pl \in PulseLeaves(b) :
                /\ pl[1] = e.pulse
                /\ pl[2].type = "TickRange"
                /\ pl[2].start = e.start /\ pl[2].end = e.end
                /\ e.start > e.end
      [] e.kind = "DuplicatePulseName" -> ~RuleUniquePulseNames(b)
      [] OTHER -> FALSE

ConditionsInvalid(b) == ~RuleConditionsValid(b)

----------------------------------------------------------------------------
(* Properties of the condition literals *)

\* The condition that the documentation builds natively for the form that
\* is registered under this pulse name.
NativeOf(name) == (CHOOSE f \in ConditionForms : f[1] = name)[3]

FormNames == {f[1] : f \in ConditionForms}
FormLiterals == {f[2] : f \in ConditionForms}

\* C21 (as the documentation states it): each of the seven forms, and each
\* tree of them, is accepted as a literal, the condition registered is the
\* one built natively, and in every state of the running clock it
\* evaluates as the native one does.
C21_LiteralBuildsEveryForm ==
    /\ (registration.called /\ registration.literal \in FormLiterals)
          => /\ registration.result.ok
             /\ registration.result.value = NativeOf(registration.name)
    /\ phase = "Running" =>
          \A i \in 1..Len(clock.pulses) :
              clock.pulses[i].name \in FormNames =>
                  is_met(clock.pulses[i].condition, clock.tick, snapshot(clock))
                      = is_met(NativeOf(clock.pulses[i].name), clock.tick,
                               snapshot(clock))

\* The literals of the documentation: the discriminator is one of the seven
\* and the fields of that form are there, at every depth.
RECURSIVE WellFormed(_)
WellFormed(lit) ==
    /\ HasField(lit, "type")
    /\ CASE lit.type = "every" ->
                HasField(lit, "period") /\ lit.period \in 0..U64Max
         [] lit.type = "partition_equals" ->
                /\ HasField(lit, "name")
                /\ HasField(lit, "value") /\ lit.value \in 0..U64Max
         [] lit.type = "partition_modulo" ->
                /\ HasField(lit, "name")
                /\ HasField(lit, "modulus") /\ lit.modulus \in 0..U64Max
                /\ HasField(lit, "remainder") /\ lit.remainder \in 0..U64Max
         [] lit.type = "tick_range" ->
                /\ HasField(lit, "start") /\ lit.start \in 0..U64Max
                /\ HasField(lit, "end") /\ lit.end \in 0..U64Max
         [] lit.type = "not" ->
                HasField(lit, "condition") /\ WellFormed(lit.condition)
         [] lit.type \in {"and", "or"} ->
                /\ HasField(lit, "conditions")
                /\ \A i \in 1..Len(lit.conditions) : WellFormed(lit.conditions[i])
         [] OTHER -> FALSE

\* The pulse_condition call that this step makes, if it makes one.
Registers == registration' # registration

\* C22: a literal with an unknown discriminator or a malformed field, at
\* any depth, is answered with an error by the pulse_condition call itself,
\* which leaves the builder without the pulse; a tick() neither fails nor
\* reports anything about a literal.
C22_MalformedRejectedAtRegistration ==
    /\ [][(Registers /\ ~WellFormed(registration'.literal))
             => /\ ~registration'.result.ok
                /\ builder' = builder]_vars
    /\ [][steps' # steps => registration' = registration /\ phase' = "Running"]_vars

C22_Witness ==
    /\ registration.called
    /\ registration.name = "deep"
    /\ ~registration.result.ok
    /\ Len(builder.pulses) = 1
    /\ phase = "Running"
    /\ steps = LifecycleSteps

----------------------------------------------------------------------------
(* Properties of the documented scenarios *)

\* C23: on the clock sec(60) -> min(60) -> hour(24), least significant
\* first, the outcome of the 12 * 3600-th tick() from the fresh clock holds
\* a PulseFired named "noon"; no earlier outcome and not the next one does.
C23_NoonFires ==
    Ticked => ("noon" \in FiredNames(outcome) <=> steps = NoonSteps)

C23_Witness ==
    /\ steps = NoonSteps
    /\ snapshot_partition(outcome.snapshot, "hour").value = 12
    /\ \E i \in 1..Len(outcome.pulses) :
          /\ outcome.pulses[i].name = "noon"
          /\ outcome.pulses[i].tick = clock.tick

\* A builder on which nothing but pulses has been registered.
NoPartitions(b) == Len(b.partitions) = 0 /\ b.order = NoOrder

\* C24: a builder without partitions and without an order selection builds
\* (its pulses being valid), and a clock without pulses returns the empty
\* pulse list from every tick() except the one that wraps tick, which
\* returns the overflow pulse and nothing else.
C24_DegenerateClockLegal ==
    /\ (Built /\ NoPartitions(builder) /\ RuleConditionsValid(builder)
              /\ RuleUniquePulseNames(builder))
          => build_result.kind = "Ok" /\ phase = "Running"
    /\ (Ticked /\ Len(clock.pulses) = 0)
          => outcome.pulses =
                IF steps % U64Mod = 0
                THEN <<[name |-> OverflowName, tick |-> 0,
                        epoch |-> outcome.snapshot.epoch]>>
                ELSE <<>>

C24_Witness ==
    /\ NoPartitions(builder)
    /\ Len(clock.pulses) = 0
    /\ Ticked
    /\ steps = U64Mod
    /\ Len(outcome.pulses) = 1
    /\ outcome.pulses[1].name = OverflowName
    /\ outcome.snapshot.partitions = <<>>

----------------------------------------------------------------------------
(* Properties of the Engine *)

\* This step is a start() call / a stop() call.  (A call that repeats the
\* latest call and changes nothing is a stuttering step.)
StartStep == call'.op = "start" /\ call' # call
StopStep == call'.op = "stop" /\ call' # call

\* This step is a frame callback running.
FrameStep == call' = call /\ raf' # raf

\* What the page reads from the engine.
Signals == <<engine.tick, engine.alpha, engine.deltaMs>>

\* The arguments that are no tick rate.
InvalidRate(arg) ==
    arg \in {Number(0), Number(0 - 1), NaN, PosInfinity, NegInfinity, NotNumber}

\* C26: start() on a stopped engine with zero, a negative number, NaN,
\* Infinity, -Infinity or a value that is no number throws, and leaves the
\* engine stopped with its tick rate, tick count, accumulator and signals
\* as they were and without a frame requested; a valid rate does not throw.
C26_StartRejectsInvalidRate ==
    /\ [][(StartStep /\ ~engine.running /\ InvalidRate(call'.arg))
             => /\ call'.threw
                /\ engine' = engine
                /\ raf' = raf]_vars
    /\ [][(StartStep /\ ~engine.running /\ ~InvalidRate(call'.arg))
             => /\ ~call'.threw
                /\ engine'.running
                /\ engine'.tickRateMs = call'.arg.value]_vars
    /\ [](~engine.running => raf.pending = {} /\ engine.rafId = <<>>)

C26_Witness ==
    /\ call.op = "start"
    /\ call.threw
    /\ call.arg = NaN
    /\ ~engine.running
    /\ engine.tickRateMs = 2
    /\ engine.tickCount = MAX_TICKS_PER_FRAME
    /\ engine.accumulator = 2
    /\ raf.pending = {}

\* C27: start() on a running engine changes nothing, whatever its argument,
\* and does not throw; the tick rate, the tick count, the accumulator and
\* the requested frame stay, and at most one frame request is pending, the
\* one the engine holds.
C27_StartIdempotent ==
    /\ [][(StartStep /\ engine.running)
             => /\ ~call'.threw
                /\ engine' = engine
                /\ raf' = raf]_vars
    /\ [](Cardinality(raf.pending) <= 1)
    /\ [](engine.running => raf.pending = {engine.rafId[1]})

C27_Witness ==
    /\ call.op = "start"
    /\ call.arg = Number(0)
    /\ ~call.threw
    /\ engine.running
    /\ engine.tickRateMs = 2
    /\ engine.tickCount = 1
    /\ engine.accumulator = 1
    /\ Cardinality(raf.pending) = 1

\* C28: a frame callback advances the tick count by at most
\* MAX_TICKS_PER_FRAME, whatever time has passed since the last frame, and
\* publishes the new count; a requested callback can always run to its end.
C28_FrameBounded ==
    /\ [][FrameStep
             => /\ engine'.tickCount - engine.tickCount
                      \in 0..MAX_TICKS_PER_FRAME
                /\ engine'.running => engine'.tick = engine'.tickCount
                                        \/ engine'.tickCount = engine.tickCount]_vars
    /\ []((raf.pending # {} /\ raf.next <= MaxFrames)
             => ENABLED (\E now \in TimeMenu : Frame(now)))

C28_Witness ==
    /\ engine.running
    /\ engine.tickRateMs = 2
    /\ engine.deltaMs = MaxTime
    /\ engine.tickCount = MAX_TICKS_PER_FRAME
    /\ engine.tick = MAX_TICKS_PER_FRAME
    /\ engine.accumulator = 2

\* C29 (as the documentation states it): alpha is between 0 and 1,
\* initially and after every frame, for any sequence of timestamps.
C29_AlphaInUnitInterval ==
    /\ engine.alpha.den > 0
    /\ 0 <= engine.alpha.num
    /\ engine.alpha.num <= engine.alpha.den

\* C30: stop() leaves running false and no frame requested; while the
\* engine is stopped no step changes tick, alpha or deltaMs, not even a
\* frame callback that runs after stop(); stop() on a stopped engine
\* changes nothing.
C30_StopFreezesSignals ==
    /\ [][StopStep => /\ ~engine'.running
                      /\ engine'.rafId = <<>>
                      /\ raf'.pending = {}
                      /\ Signals' = Signals]_vars
    /\ [][~engine.running => Signals' = Signals]_vars
    /\ [][(StopStep /\ ~engine.running)
             => engine' = engine /\ raf' = raf]_vars

C30_Witness ==
    /\ call.op = "stop"
    /\ ~engine.running
    /\ raf.cancelled = {}
    /\ raf.next > 2
    /\ engine.tick = 1
    /\ engine.alpha = [num |-> 1, den |-> 2]
    /\ engine.deltaMs = 3
    /\ engine.lastFrameTime = 4

----------------------------------------------------------------------------
(* Properties of the step that wraps tick *)

\* C34: the tick() that takes tick from its maximum value to 0 fires no
\* pulse registered with Every(period), Every(1) included, and fires the
\* overflow pulse.
C34_NoEveryOnWrap ==
    (Ticked /\ steps % U64Mod = 0) =>
        /\ outcome.snapshot.tick = 0
        /\ outcome.overflowed
        /\ OverflowName \in FiredNames(outcome)
        /\ \A i \in 1..Len(clock.pulses) :
              clock.pulses[i].condition.type = "Every" =>
                  clock.pulses[i].name \notin FiredNames(outcome)

C34_Witness ==
    /\ Ticked
    /\ steps = U64Mod
    /\ clock.pulses = <<[name |-> "p", condition |-> Every(1)]>>
    /\ outcome.pulses = <<PulseFired(OverflowName, clock)>>

\* The records of a pulse list that carry the name of the overflow pulse.
OverflowRecords(pulses) ==
    {i \in 1..Len(pulses) : pulses[i].name = OverflowName}

\* C35 (as the specification states it): in every outcome of a built clock
\* the pulse list holds a record named __overflow__ exactly when overflowed
\* is true, and never two of them, whatever pulses the caller registered.
C35_OverflowRecordIffOverflowed ==
    Ticked =>
        /\ OverflowRecords(outcome.pulses) # {} <=> outcome.overflowed
        /\ Cardinality(OverflowRecords(outcome.pulses)) <= 1

\* The positions of the partitions that count faster than partition i.
FasterThan(c, i) ==
    IF c.partition_order = LSF THEN 1..(i - 1)
    ELSE (i + 1)..Len(c.partitions)

\* C36: the tick() that wraps tick to 0 advances the partitions as every
\* other tick() does: the fastest partition goes on from its value before
\* the wrap, and the partitions stay the mixed-radix digits of the number
\* of ticks taken; the outcome reports these values.
C36_CascadeThroughWrap ==
    [][(TickStep /\ clock.tick = U64Max) =>
          LET p == clock.partitions
              q == clock'.partitions
          IN  /\ clock'.tick = 0
              /\ outcome'.overflowed
              /\ outcome'.snapshot.partitions = snapshot(clock').partitions
              /\ \A i \in 1..Len(p) :
                    /\ q[i].value = Digit(p, i, FasterThan(clock, i), steps')
                    /\ FasterThan(clock, i) = {} =>
                          q[i].value = (p[i].value + 1) % p[i].modulus]_vars

C36_Witness ==
    /\ steps = U64Mod
    /\ outcome.overflowed
    /\ clock.partition_order = LSF
    /\ Len(clock.partitions) >= 2
    /\ clock.partitions[2].value > 0
    /\ outcome.snapshot.partitions[2].value
          = (steps \div clock.partitions[1].modulus) % clock.partitions[2].modulus

----------------------------------------------------------------------------
(* The frame loop and elapsed time *)

\* The time that the frames of the current run have covered since start().
Elapsed == engine.lastFrameTime - run.started

----------------------------------------------------------------------------
(* The tick signal and the count of the run *)

\* C33: whenever the engine is running, the tick signal is the number of
\* fixed steps taken since the most recent start() (tickCount, which
\* start() sets to 0 and every step of the loop increments).
C33_TickSignalCountsRun == engine.running => engine.tick = engine.tickCount

----------------------------------------------------------------------------
(* ClockService and the engine *)

\* C32: while the service's engine runs, the number of tick() calls made on
\* the clock since ClockService.start() equals the engine's tick count.
C32_OneKernelTickPerEngineTick ==
    (phase = "Running" /\ engine.running /\ builder = ServiceBuilder)
        => steps = engine.tickCount

----------------------------------------------------------------------------
(* AnimatedLoader: onComplete *)

\* The step is a render at which the loader is running (a run begun by an
\* earlier call) and the ticks elapsed since the start of its run have
\* reached durationTicks.
RenderReachesOne ==
    /\ loader.constructed /\ loader'.constructed
    /\ loader'.op.name = "render"
    /\ loader.state.running
    /\ loader'.op.tick - loader.state.startTick >= loader.durationTicks
    /\ loader'.op.tick > loader.state.startTick

\* C37: a step calls onComplete at most once, and it does so exactly when
\* it is a render at which the progress of the run reaches 1; a loader
\* that does not loop is then completed and no longer running, and calls
\* onComplete in no later step until start() or reset(); a looping loader
\* is then in a new run that starts at the tick of that render with
\* progress 0, not completed.
C37_OnCompleteOncePerRun ==
    /\ [](loader.constructed =>
            (loader.state.completed => ~loader.state.running /\ ~loader.loop))
    /\ [][(loader.constructed /\ loader'.constructed
              /\ loader'.durationTicks = loader.durationTicks
              /\ loader'.loop = loader.loop
              /\ loader'.op.name # "new")
           => /\ loader'.onComplete
                    = loader.onComplete + (IF RenderReachesOne THEN 1 ELSE 0)
              /\ (loader.state.completed /\ loader'.op.name = "render")
                    => /\ loader'.onComplete = loader.onComplete
                       /\ loader'.state = loader.state
              /\ RenderReachesOne =>
                    IF loader.loop
                    THEN loader'.state = LoaderStarted(loader'.op.tick)
                    ELSE /\ loader'.state.completed
                         /\ ~loader'.state.running
                         /\ loader'.state.progress = Fraction(1, 1)]_vars

\* A looping loader of duration 2 has completed twice, at ticks 2 and 4,
\* and is in its third run.
C37_Witness ==
    /\ loader.constructed
    /\ loader.loop
    /\ loader.durationTicks = 2
    /\ loader.onComplete = 2
    /\ loader.op = [name |-> "render", tick |-> 4]
    /\ loader.state = LoaderStarted(4)

\* A loader of duration 3 that does not loop has completed, was started
\* again at tick 1 and has completed again.
LoaderCompletedAgain ==
    /\ loader.constructed
    /\ ~loader.loop
    /\ loader.durationTicks = 3
    /\ loader.onComplete = 2
    /\ loader.state.completed
    /\ loader.state.startTick = 1

----------------------------------------------------------------------------
(* The Conway skin: generations and ticks *)

\* C38: once the grid is initialised, the number of generations computed
\* since then is the number of ticks between the tick of initialisation
\* and the tick rendered last.
C38_OneGenerationPerTick ==
    conway.initialized => conway.computed = conway.lastTick - conway.since

----------------------------------------------------------------------------
(* createApp: the callbacks of a scene *)

\* C39: the onEnter and onExit calls that each scene has received
\* alternate, and the first of them is onEnter.
C39_EnterExitAlternate ==
    \A s \in Scenes :
        \A i \in 1..Len(app.received[s]) :
            app.received[s][i] = IF i % 2 = 1 THEN "onEnter" ELSE "onExit"

====
